---- MODULE Spec2Model ----
(***************************************************************************)
(* Model of the joomla6-coder-mcp indexing pipeline and query tools.       *)
(*                                                                         *)
(* A string is a sequence of one-character strings, so that substring,     *)
(* prefix, suffix, case folding and edit distance are computed character   *)
(* by character as the JavaScript built-ins compute them.  An optional     *)
(* value (a `?:` field, a value that may be undefined) is a sequence of    *)
(* length 0 (undefined) or 1.                                              *)
(***************************************************************************)
EXTENDS Integers, Sequences, FiniteSets, TLC

VARIABLES sourceTree, joomlaIndex, response, sqlDir, schemaCache, schemaIndex,
          checkout, indexFile, syncTask, server, bridge, waiter, calls,
          children, ops

\* The local clone, the persisted index, the joomla_sync call in flight and
\* the phase of the server process
startupVars == <<checkout, indexFile, syncTask, server>>

\* The Intelephense bridge
indexVars == <<sourceTree, joomlaIndex, response, sqlDir, schemaCache, schemaIndex>>
lspVars == <<bridge, waiter, calls, children, ops>>

vars == <<sourceTree, joomlaIndex, response, sqlDir, schemaCache, schemaIndex,
          startupVars, lspVars>>

(***************************************************************************)
(* JavaScript built-ins used by the tools                                  *)
(***************************************************************************)
UpperAlpha ==
  <<"A","B","C","D","E","F","G","H","I","J","K","L","M",
    "N","O","P","Q","R","S","T","U","V","W","X","Y","Z">>

LowerAlpha ==
  <<"a","b","c","d","e","f","g","h","i","j","k","l","m",
    "n","o","p","q","r","s","t","u","v","w","x","y","z">>

Min(a, b) == IF a <= b THEN a ELSE b

Max(a, b) == IF a >= b THEN a ELSE b

Undefined == << >>

Some(x) == <<x>>

\* JavaScript truthiness of an optional string: undefined and '' are falsy
Truthy(opt) == opt # Undefined /\ opt[1] # << >>

\* The lower-case letter of each upper-case letter
LowerOf ==
  [ch \in {UpperAlpha[k] : k \in 1..Len(UpperAlpha)} |->
     LowerAlpha[CHOOSE k \in 1..Len(UpperAlpha) : UpperAlpha[k] = ch]]

lowerChar(ch) == IF ch \in DOMAIN LowerOf THEN LowerOf[ch] ELSE ch

toLowerCase(s) == [k \in 1..Len(s) |-> lowerChar(s[k])]

\* s.includes(t)
includes(s, t) ==
  \E k \in 0..(Len(s) - Len(t)) : SubSeq(s, k + 1, k + Len(t)) = t

\* s.startsWith(t)
startsWith(s, t) == Len(t) <= Len(s) /\ SubSeq(s, 1, Len(t)) = t

\* s.endsWith(t)
endsWith(s, t) ==
  Len(t) <= Len(s) /\ SubSeq(s, Len(s) - Len(t) + 1, Len(s)) = t

\* arr.slice(0, end): a negative end counts from the end of the array
slice(arr, end) ==
  IF end < 0
  THEN SubSeq(arr, 1, Max(Len(arr) + end, 0))
  ELSE SubSeq(arr, 1, Min(end, Len(arr)))

\* The least element of a non-empty set of positions
First(positions) == CHOOSE k \in positions : \A m \in positions : k <= m

\* arr.find(c => c[field].toLowerCase() === term): the first such element
findLower(arr, field, term) ==
  LET hits == {k \in 1..Len(arr) : toLowerCase(arr[k][field]) = term}
  IN  IF hits = {} THEN Undefined ELSE Some(arr[First(hits)])

\* classes.push(...parsed) for each file in turn: the concatenation, computed
\* by halves
RECURSIVE flatten(_)
flatten(seqs) ==
  IF Len(seqs) = 0 THEN << >>
  ELSE IF Len(seqs) = 1 THEN seqs[1]
  ELSE LET mid == Len(seqs) \div 2
       IN  flatten(SubSeq(seqs, 1, mid)) \o flatten(SubSeq(seqs, mid + 1, Len(seqs)))

(***************************************************************************)
(* php-parser.ts: the parsed declarations                                  *)
(***************************************************************************)
Backslash == <<"\\">>

ParsedParameter(name, type, defaultValue) ==
  [name |-> name, type |-> type, defaultValue |-> defaultValue]

ParsedMethod(name, docblock, parameters) ==
  [name |-> name, docblock |-> docblock, parameters |-> parameters]

\* parseClassNode: fqn is namespace\name, or the bare name in the global namespace
parseClassNode(name, namespace, ext, docblock, methods, properties, constants) ==
  [name       |-> name,
   namespace  |-> namespace,
   fqn        |-> IF namespace # << >> THEN namespace \o Backslash \o name ELSE name,
   extends    |-> ext,
   docblock   |-> docblock,
   methods    |-> methods,
   properties |-> properties,
   constants  |-> constants]

\* A discovered .php file: whether readFile succeeds, whether parseCode and
\* the walk of its tree succeed, and the declarations the walk collects
SourceFile(readable, parses, nodes) ==
  [readable |-> readable, parses |-> parses, nodes |-> nodes]

\* As parseContent with the declarations collected before the error kept
parseContentKeepsPartial(file) == file.nodes

\* parseContent: the declarations of the file, or [] when parsing throws
parseContent(file) == IF file.parses THEN file.nodes ELSE << >>

\* parseFile: [] when the file cannot be read, else parseContent
parseFile(file) == IF file.readable THEN parseContent(file) ELSE << >>

(***************************************************************************)
(* index-builder.ts                                                        *)
(***************************************************************************)
NoIndex == [built |-> FALSE]

EventStr == <<"E","v","e","n","t">>

AbstractEventStr == <<"A","b","s","t","r","a","c","t">> \o EventStr

InterfaceStr == <<"I","n","t","e","r","f","a","c","e">>

EVENT_EXCLUSIONS ==
  { EventStr \o <<"M","a","n","a","g","e","r">>,
    EventStr \o <<"M","a","n","a","g","e","r">> \o InterfaceStr,
    EventStr \o <<"L","i","s","t","e","n","e","r">>,
    EventStr \o <<"L","i","s","t","e","n","e","r">> \o InterfaceStr,
    EventStr \o <<"S","u","b","s","c","r","i","b","e","r">>,
    EventStr \o <<"S","u","b","s","c","r","i","b","e","r">> \o InterfaceStr,
    EventStr \o <<"D","i","s","p","a","t","c","h","e","r">>,
    EventStr \o <<"D","i","s","p","a","t","c","h","e","r">> \o InterfaceStr,
    EventStr \o <<"A","w","a","r","e">> \o InterfaceStr,
    EventStr \o <<"A","w","a","r","e","T","r","a","i","t">> }

\* A JavaScript object with string keys is a sequence of entries in insertion
\* order: assigning to an existing key replaces its value and keeps its place.
Positions(arr) == [k \in 1..Len(arr) |-> k]

firstAssignments(entries, field) ==
  SelectSeq(Positions(entries),
    LAMBDA k : \A j \in 1..(k - 1) : entries[j][field] # entries[k][field])

\* The last element of arr whose field is key: the assignment that stays
lastAssigned(entries, field, key) ==
  entries[CHOOSE k \in 1..Len(entries) :
            /\ entries[k][field] = key
            /\ \A j \in (k + 1)..Len(entries) : entries[j][field] # key]

\* buildNamespaceMap: declarations of the global namespace are skipped; each
\* namespace holds the simple names pushed to it, in order.
buildNamespaceMap(classes) ==
  LET named == SelectSeq(classes, LAMBDA cls : cls.namespace # << >>)
      keys  == firstAssignments(named, "namespace")
  IN  [n \in 1..Len(keys) |->
         LET ns == named[keys[n]].namespace
             in == SelectSeq(named, LAMBDA cls : cls.namespace = ns)
         IN  [namespace |-> ns, names |-> [k \in 1..Len(in) |-> in[k].name]]]

\* As nsHasEvent with a plain substring test
nsIncludesEvent(namespace) == includes(namespace, EventStr)

\* /\\Event\\/.test(ns) || ns.endsWith('\\Event')
nsHasEvent(namespace) ==
  \/ includes(namespace, Backslash \o EventStr \o Backslash)
  \/ endsWith(namespace, Backslash \o EventStr)

extendsEvent(cls) ==
  /\ cls.extends # Undefined
  /\ \/ endsWith(cls.extends[1], EventStr)
     \/ includes(cls.extends[1], AbstractEventStr)

nameIsEvent(cls) == endsWith(cls.name, EventStr)

\* As isEventClass without the exclusion list
isEventClassAnyName(cls) ==
  /\ nsHasEvent(cls.namespace)
  /\ (extendsEvent(cls) \/ nameIsEvent(cls))

\* The filter of buildEventMap
isEventClass(cls) ==
  /\ cls.name \notin EVENT_EXCLUSIONS
  /\ nsHasEvent(cls.namespace)
  /\ (extendsEvent(cls) \/ nameIsEvent(cls))

\* As renderParameter with the default value left out
renderParameterNoDefault(p) ==
  IF Truthy(p.type)
  THEN p.type[1] \o <<" ", "$">> \o p.name
  ELSE <<"$">> \o p.name

\* "<type> $<name>", "$<name>" without a type, then " = <default>"
renderParameter(p) ==
  LET base == IF Truthy(p.type)
              THEN p.type[1] \o <<" ", "$">> \o p.name
              ELSE <<"$">> \o p.name
  IN  IF Truthy(p.defaultValue)
      THEN base \o <<" ", "=", " ">> \o p.defaultValue[1]
      ELSE base

ConstructStr == <<"_","_","c","o","n","s","t","r","u","c","t">>

\* methods.find(m => m.name === '__construct')
findConstructor(methods) ==
  LET hits == {k \in 1..Len(methods) : methods[k].name = ConstructStr}
  IN  IF hits = {} THEN Undefined ELSE Some(methods[First(hits)])

eventInfo(cls) ==
  LET ctor == findConstructor(cls.methods)
  IN  [name        |-> cls.name,
       class       |-> cls.fqn,
       parameters  |-> IF ctor = Undefined THEN << >>
                       ELSE [k \in 1..Len(ctor[1].parameters) |->
                               renderParameter(ctor[1].parameters[k])],
       description |-> cls.docblock]

\* A first-wins variant of eventMapOf
eventMapFirstWins(eventClasses) ==
  LET keys == firstAssignments(eventClasses, "fqn")
  IN  [n \in 1..Len(keys) |-> eventInfo(eventClasses[keys[n]])]

\* for (const cls of eventClasses) map[cls.fqn] = {...}: one entry per FQN, in
\* the order the FQNs first occur, holding what was assigned last
eventMapOf(eventClasses) ==
  LET keys == firstAssignments(eventClasses, "fqn")
  IN  [n \in 1..Len(keys) |->
         eventInfo(lastAssigned(eventClasses, "fqn", eventClasses[keys[n]].fqn))]

buildEventMap(classes) == eventMapOf(SelectSeq(classes, isEventClass))

\* buildIndex: every file is parsed in discovery order and its declarations
\* are appended; the derived maps are built from the full list.
indexOfClasses(classes) ==
  [built        |-> TRUE,
   classes      |-> classes,
   namespaceMap |-> buildNamespaceMap(classes),
   eventMap     |-> buildEventMap(classes)]

buildIndex(tree) ==
  indexOfClasses(flatten([k \in DOMAIN tree |-> parseFile(tree[k])]))

(***************************************************************************)
(* lookup-class.ts                                                         *)
(***************************************************************************)
MaxPartialSuggestions == 10

MaxFuzzySuggestions == 5

MaxEditDistance == 3

MsgMultiple == "Multiple matches found for \"%1\". Did you mean one of these?"

MsgNotFound == "Class \"%1\" not found in Joomla 6 API."

MsgMethodNotFound ==
  "Method \"%1\" not found in %2. Available methods listed in class details."

MsgFoundMethod == "Found method %1 in %2"

MsgFound == "Found %1"

Message(template, args) == [template |-> template, args |-> args]

\* One row of the matrix: matrix[i][0] = i, then for j = 1..a.length the cell
\* from the diagonal, left and upper neighbours.
RECURSIVE levRow(_, _, _, _, _)
levRow(a, b, i, prev, cur) ==
  LET j == Len(cur)   \* cur holds matrix[i][0..j-1]; prev is matrix[i-1]
  IN  IF j > Len(a) THEN cur
      ELSE levRow(a, b, i, prev,
             Append(cur,
               IF b[i] = a[j]
               THEN prev[j]
               ELSE Min(Min(prev[j] + 1, cur[j] + 1), prev[j + 1] + 1)))

RECURSIVE levRows(_, _, _, _)
levRows(a, b, i, prev) ==
  IF i > Len(b) THEN prev
  ELSE levRows(a, b, i + 1, levRow(a, b, i, prev, <<i>>))

\* As levenshteinDistance with the "+ 1" of a substitution forgotten
levenshteinFreeSubstitution(a, b) == Max(Len(a), Len(b)) - Min(Len(a), Len(b))

\* Rows are 1-indexed sequences here: row[j + 1] is matrix[i][j].
levenshteinDistance(a, b) ==
  levRows(a, b, 1, [j \in 1..(Len(a) + 1) |-> j - 1])[Len(a) + 1]

partialMatches(index, searchTerm) ==
  SelectSeq(index.classes,
    LAMBDA c : \/ includes(toLowerCase(c.name), searchTerm)
               \/ includes(toLowerCase(c.fqn), searchTerm))

fuzzyMatches(index, searchTerm) ==
  SelectSeq(index.classes,
    LAMBDA c : levenshteinDistance(toLowerCase(c.name), searchTerm)
                 <= MaxEditDistance)

fqnsOf(classes) == [k \in 1..Len(classes) |-> classes[k].fqn]

namesOf(members) == [k \in 1..Len(members) |-> members[k].name]

\* As exactMatch without the simple-name step
exactMatchFqnOnly(index, searchTerm) ==
  findLower(index.classes, "fqn", searchTerm)

\* Step 1 and 2: Array.find takes the first exact FQN match, else the first
\* exact simple-name match.
exactMatch(index, searchTerm) ==
  LET byFqn == findLower(index.classes, "fqn", searchTerm)
  IN  IF byFqn # Undefined THEN byFqn
      ELSE findLower(index.classes, "name", searchTerm)

\* As ambiguousMessage with the text of the not-found branch
ambiguousMessageAsNotFound(className) == Message(MsgNotFound, <<className>>)

ambiguousMessage(className) == Message(MsgMultiple, <<className>>)

\* As partialSuggestions without the cap
partialSuggestionsUncapped(partial) == fqnsOf(partial)

\* partialMatches.slice(0, 10).map(c => c.fqn)
partialSuggestions(partial) == fqnsOf(slice(partial, MaxPartialSuggestions))

\* The tail of lookupClass once a class is selected
lookupMethod(matchedClass, input) ==
  IF Truthy(input.methodName)
  THEN LET wanted == toLowerCase(input.methodName[1])
           method == findLower(matchedClass.methods, "name", wanted)
           methodSuggestions ==
             namesOf(SelectSeq(matchedClass.methods,
               LAMBDA m : includes(toLowerCase(m.name), wanted)))
       IN  IF method = Undefined
           THEN [found |-> TRUE, class |-> Some(matchedClass), method |-> Undefined,
                 suggestions |-> IF Len(methodSuggestions) > 0
                                 THEN Some(methodSuggestions) ELSE Undefined,
                 message |-> Message(MsgMethodNotFound,
                                     <<input.methodName[1], matchedClass.fqn>>)]
           ELSE [found |-> TRUE, class |-> Some(matchedClass), method |-> method,
                 suggestions |-> Undefined,
                 message |-> Message(MsgFoundMethod,
                                     <<input.methodName[1], matchedClass.fqn>>)]
  ELSE [found |-> TRUE, class |-> Some(matchedClass), method |-> Undefined,
        suggestions |-> Undefined,
        message |-> Message(MsgFound, <<matchedClass.fqn>>)]

lookupClass(index, input) ==
  LET searchTerm == toLowerCase(input.className)
      exact      == exactMatch(index, searchTerm)
      partial    == partialMatches(index, searchTerm)
      fuzzy      == fqnsOf(slice(fuzzyMatches(index, searchTerm),
                                 MaxFuzzySuggestions))
  IN  IF exact # Undefined THEN lookupMethod(exact[1], input)
      ELSE IF Len(partial) = 1 THEN lookupMethod(partial[1], input)
      ELSE IF Len(partial) > 1
      THEN [found |-> FALSE, class |-> Undefined, method |-> Undefined,
            suggestions |-> Some(partialSuggestions(partial)),
            message |-> ambiguousMessage(input.className)]
      ELSE [found |-> FALSE, class |-> Undefined, method |-> Undefined,
            suggestions |-> IF Len(fuzzy) > 0 THEN Some(fuzzy) ELSE Undefined,
            message |-> Message(MsgNotFound, <<input.className>>)]

(***************************************************************************)
(* search.ts                                                               *)
(***************************************************************************)
DefaultSearchLimit == 10

typeAllows(type, kind) == type = "all" \/ type = kind

Row(type, name, fqn, context) ==
  [type |-> type, name |-> name, fqn |-> fqn, context |-> context]

docblockMatches(docblock, searchTerm) ==
  Truthy(docblock) /\ includes(toLowerCase(docblock[1]), searchTerm)

classRows(cls, searchTerm, type) ==
  IF /\ typeAllows(type, "class")
     /\ \/ includes(toLowerCase(cls.name), searchTerm)
        \/ includes(toLowerCase(cls.fqn), searchTerm)
        \/ docblockMatches(cls.docblock, searchTerm)
  THEN << Row("class", cls.name, cls.fqn, Undefined) >>
  ELSE << >>

methodRows(cls, searchTerm, type) ==
  IF typeAllows(type, "method")
  THEN LET hits == SelectSeq(cls.methods,
                     LAMBDA m : \/ includes(toLowerCase(m.name), searchTerm)
                                \/ docblockMatches(m.docblock, searchTerm))
       IN  [k \in 1..Len(hits) |->
              Row("method", hits[k].name,
                  cls.fqn \o <<":", ":">> \o hits[k].name \o <<"(", ")">>,
                  Some(cls.fqn))]
  ELSE << >>

constantRows(cls, searchTerm, type) ==
  IF typeAllows(type, "constant")
  THEN LET hits == SelectSeq(cls.constants,
                     LAMBDA c : includes(toLowerCase(c.name), searchTerm))
       IN  [k \in 1..Len(hits) |->
              Row("constant", hits[k].name,
                  cls.fqn \o <<":", ":">> \o hits[k].name, Some(cls.fqn))]
  ELSE << >>

propertyRows(cls, searchTerm, type) ==
  IF typeAllows(type, "property")
  THEN LET hits == SelectSeq(cls.properties,
                     LAMBDA p : includes(toLowerCase(p.name), searchTerm))
       IN  [k \in 1..Len(hits) |->
              Row("property", hits[k].name,
                  cls.fqn \o <<":", ":", "$">> \o hits[k].name, Some(cls.fqn))]
  ELSE << >>

\* The scan loop: per declaration its class row, then its method, constant
\* and property rows.
RECURSIVE scanRows(_, _, _)
scanRows(classes, searchTerm, type) ==
  IF classes = << >> THEN << >>
  ELSE classRows(Head(classes), searchTerm, type)
       \o methodRows(Head(classes), searchTerm, type)
       \o constantRows(Head(classes), searchTerm, type)
       \o propertyRows(Head(classes), searchTerm, type)
       \o scanRows(Tail(classes), searchTerm, type)

\* As compareRows without the prefix step
compareRowsNoPrefix(a, b, searchTerm) ==
  LET aExact == toLowerCase(a.name) = searchTerm
      bExact == toLowerCase(b.name) = searchTerm
  IN  IF aExact /\ ~bExact THEN -1
      ELSE IF ~aExact /\ bExact THEN 1
      ELSE Len(a.name) - Len(b.name)

\* The comparator handed to results.sort
compareRows(a, b, searchTerm) ==
  LET aExact  == toLowerCase(a.name) = searchTerm
      bExact  == toLowerCase(b.name) = searchTerm
      aStarts == startsWith(toLowerCase(a.name), searchTerm)
      bStarts == startsWith(toLowerCase(b.name), searchTerm)
  IN  IF aExact /\ ~bExact THEN -1
      ELSE IF ~aExact /\ bExact THEN 1
      ELSE IF aStarts /\ ~bStarts THEN -1
      ELSE IF ~aStarts /\ bStarts THEN 1
      ELSE Len(a.name) - Len(b.name)

\* Array.prototype.sort is stable: an element goes before the first already
\* placed element it compares less than, and after everything else.
RECURSIVE insertRow(_, _, _)
insertRow(sorted, row, searchTerm) ==
  IF sorted = << >> THEN <<row>>
  ELSE IF compareRows(row, Head(sorted), searchTerm) < 0 THEN <<row>> \o sorted
  ELSE <<Head(sorted)>> \o insertRow(Tail(sorted), row, searchTerm)

RECURSIVE sortInto(_, _, _)
sortInto(sorted, rest, searchTerm) ==
  IF rest = << >> THEN sorted
  ELSE sortInto(insertRow(sorted, Head(rest), searchTerm), Tail(rest), searchTerm)

sortRows(rows, searchTerm) == sortInto(<< >>, rows, searchTerm)

\* As searchTotal, counted after the cut to the default limit
searchTotalAfterCut(results) == Min(Len(results), DefaultSearchLimit)

\* total: results.length, taken before the slice
searchTotal(results) == Len(results)

searchLimit(input) ==
  IF input.limit = Undefined THEN DefaultSearchLimit ELSE input.limit[1]

search(index, input) ==
  LET type       == IF input.type = Undefined THEN "all" ELSE input.type[1]
      searchTerm == toLowerCase(input.query)
      results    == sortRows(scanRows(index.classes, searchTerm, type), searchTerm)
  IN  [query   |-> input.query,
       results |-> slice(results, searchLimit(input)),
       total   |-> searchTotal(results)]

(***************************************************************************)
(* list-events.ts                                                          *)
(***************************************************************************)
DefaultEventLimit == 30

MinEventLimit == 1

MaxEventLimit == 100

\* As effectiveLimit without the upper clamp
effectiveLimitNoMax(input) ==
  LET limit == IF input.limit = Undefined THEN DefaultEventLimit ELSE input.limit[1]
  IN  Max(MinEventLimit, limit)

\* Math.min(Math.max(1, limit), 100), limit defaulting to 30
effectiveLimit(input) ==
  LET limit == IF input.limit = Undefined THEN DefaultEventLimit ELSE input.limit[1]
  IN  Min(Max(MinEventLimit, limit), MaxEventLimit)

namespaceFiltered(events, input) ==
  IF Truthy(input.namespace)
  THEN SelectSeq(events,
         LAMBDA e : includes(toLowerCase(e.class), toLowerCase(input.namespace[1])))
  ELSE events

\* As textFiltered, matching the name only
textFilteredByName(events, input) ==
  IF Truthy(input.filter)
  THEN SelectSeq(events,
         LAMBDA e : includes(toLowerCase(e.name), toLowerCase(input.filter[1])))
  ELSE events

textFiltered(events, input) ==
  IF Truthy(input.filter)
  THEN LET filterLower == toLowerCase(input.filter[1])
       IN  SelectSeq(events,
             LAMBDA e : \/ includes(toLowerCase(e.name), filterLower)
                        \/ includes(toLowerCase(e.class), filterLower)
                        \/ /\ Truthy(e.description)
                           /\ includes(toLowerCase(e.description[1]), filterLower))
  ELSE events

eventsTotal(index) == Len(index.eventMap)

listEvents(index, input) ==
  LET events == textFiltered(namespaceFiltered(index.eventMap, input), input)
  IN  [events   |-> slice(events, effectiveLimit(input)),
       total    |-> eventsTotal(index),
       filtered |-> Len(events)]

(***************************************************************************)
(* sql-schema-parser.ts: the regular expressions, position by position     *)
(***************************************************************************)
Digits == {"0","1","2","3","4","5","6","7","8","9"}

\* The character U+0060, which a TLA+ string cannot hold
Backtick == "backtick"

\* \s
Spaces == {" ", "\t", "\n", "\r"}

\* \w
WordChars ==
  {UpperAlpha[k] : k \in 1..Len(UpperAlpha)}
    \cup {LowerAlpha[k] : k \in 1..Len(LowerAlpha)} \cup Digits \cup {"_"}

\* A greedy run of a character class from position p: the position after it
skipClass(s, p, class) ==
  First({i \in p..Len(s) : s[i] \notin class} \cup {Len(s) + 1})

\* A greedy run of characters outside a set from position p
skipUntil(s, p, stops) ==
  First({i \in p..Len(s) : s[i] \in stops} \cup {Len(s) + 1})

\* The first position from p on that holds ch, 0 when there is none
indexOf(s, ch, p) ==
  LET hits == {i \in p..Len(s) : s[i] = ch}
  IN  IF hits = {} THEN 0 ELSE First(hits)

\* A literal of a pattern with the i flag, at position p
literalAt(s, p, lit) ==
  /\ p >= 1
  /\ p + Len(lit) - 1 <= Len(s)
  /\ toLowerCase(SubSeq(s, p, p + Len(lit) - 1)) = toLowerCase(lit)

\* An optional character at position p: the position after it
optionalAt(s, p, ch) == IF p <= Len(s) /\ s[p] = ch THEN p + 1 ELSE p

charAt(s, p, ch) == p >= 1 /\ p <= Len(s) /\ s[p] = ch

\* s.trim()
trim(s) ==
  LET inked == {i \in 1..Len(s) : s[i] \notin Spaces}
  IN  IF inked = {} THEN << >>
      ELSE SubSeq(s, First(inked), CHOOSE b \in inked : \A i \in inked : i <= b)

\* The elements of a set of positions in increasing order
ascending(positions) ==
  [n \in 1..Cardinality(positions) |->
     CHOOSE p \in positions : Cardinality({r \in positions : r <= p}) = n]

\* The pieces of s between the positions of cuts, in order
piecesAt(s, cuts) ==
  LET at == ascending(cuts)
  IN  [n \in 1..(Len(at) + 1) |->
         SubSeq(s, IF n = 1 THEN 1 ELSE at[n - 1] + 1,
                   IF n = Len(at) + 1 THEN Len(s) ELSE at[n] - 1)]

\* s.split(',')
splitCommas(s) == piecesAt(s, {i \in 1..Len(s) : s[i] = ","})

PlaceholderPrefix == <<"#","_","_">>

\* name.replace(/^#__/, '')
stripPrefix(name) ==
  IF startsWith(name, PlaceholderPrefix)
  THEN SubSeq(name, Len(PlaceholderPrefix) + 1, Len(name))
  ELSE name

\* IF\s+NOT\s+EXISTS\s+ at position p: the position after it, 0 without a match
ifNotExistsAt(s, p) ==
  LET a == skipClass(s, p + 2, Spaces)
      b == skipClass(s, a + 3, Spaces)
      c == skipClass(s, b + 6, Spaces)
  IN  IF /\ literalAt(s, p, <<"I","F">>) /\ a > p + 2
         /\ literalAt(s, a, <<"N","O","T">>) /\ b > a + 3
         /\ literalAt(s, b, <<"E","X","I","S","T","S">>) /\ c > b + 6
      THEN c ELSE 0

\* `?([^`\s(]+)`?\s*\(([\s\S]*?)\)([^;]*); at position p.  The lazy body ends
\* at the first ")" after the opening parenthesis, the suffix at the first
\* ";" after that.
tableAt(s, p) ==
  LET n0    == optionalAt(s, p, Backtick)
      n1    == skipUntil(s, n0, {Backtick, "("} \cup Spaces)
      n2    == optionalAt(s, n1, Backtick)
      open  == skipClass(s, n2, Spaces)
      close == indexOf(s, ")", open + 1)
      semi  == indexOf(s, ";", close + 1)
  IN  IF n1 > n0 /\ charAt(s, open, "(") /\ close # 0 /\ semi # 0
      THEN Some([name   |-> SubSeq(s, n0, n1 - 1),
                 body   |-> SubSeq(s, open + 1, close - 1),
                 suffix |-> SubSeq(s, close + 1, semi - 1),
                 end    |-> semi + 1])
      ELSE Undefined

\* createTableRegex at position p
createTableAt(s, p) ==
  LET a == skipClass(s, p + 6, Spaces)
      b == skipClass(s, a + 5, Spaces)
      c == ifNotExistsAt(s, b)
  IN  IF /\ literalAt(s, p, <<"C","R","E","A","T","E">>) /\ a > p + 6
         /\ literalAt(s, a, <<"T","A","B","L","E">>) /\ b > a + 5
      THEN IF c # 0 /\ tableAt(s, c) # Undefined THEN tableAt(s, c)
           ELSE tableAt(s, b)
      ELSE Undefined

\* createTableRegex.exec(content) with lastIndex = from - 1
execCreateTable(s, from) ==
  LET hits == {p \in from..Len(s) : createTableAt(s, p) # Undefined}
  IN  IF hits = {} THEN Undefined ELSE createTableAt(s, First(hits))

\* The parenthesis depth before position i of a table body
depthBefore(body, i) ==
  Cardinality({j \in 1..(i - 1) : body[j] = "("})
    - Cardinality({j \in 1..(i - 1) : body[j] = ")"})

\* splitTableBody: cut at the commas met at depth 0; the last piece is kept
\* when it is not blank
splitTableBody(body) ==
  LET pieces == piecesAt(body, {i \in 1..Len(body) :
                                  body[i] = "," /\ depthBefore(body, i) = 0})
  IN  IF trim(pieces[Len(pieces)]) = << >>
      THEN SubSeq(pieces, 1, Len(pieces) - 1) ELSE pieces

ColumnDefinition(name, type, nullable, defaultValue, autoIncrement, comment) ==
  [name |-> name, type |-> type, nullable |-> nullable,
   defaultValue |-> defaultValue, autoIncrement |-> autoIncrement,
   comment |-> comment]

ColumnKeywords ==
  { <<"P","R","I","M","A","R","Y">>, <<"K","E","Y">>, <<"I","N","D","E","X">>, <<"U","N","I","Q","U","E">>, <<"F","U","L","L","T","E","X","T">>,
    <<"C","O","N","S","T","R","A","I","N","T">>, <<"F","O","R","E","I","G","N">>, <<"C","H","E","C","K">> }

\* (?:\([^)]*\))? at position p: the position after it
typeParametersAt(s, p) ==
  IF charAt(s, p, "(") /\ indexOf(s, ")", p + 1) # 0
  THEN indexOf(s, ")", p + 1) + 1 ELSE p

\* (?:\s+(?:unsigned|signed))? at position p: the position after it
signAt(s, p) ==
  LET w == skipClass(s, p, Spaces)
  IN  IF w > p /\ literalAt(s, w, <<"u","n","s","i","g","n","e","d">>) THEN w + 8
      ELSE IF w > p /\ literalAt(s, w, <<"s","i","g","n","e","d">>) THEN w + 6
      ELSE p

\* The end of a quoted literal '(?:[^'\\]|\\.)*' whose body starts at
\* position i: the position of the closing quote, 0 without one
RECURSIVE quoteEnd(_, _)
quoteEnd(s, i) ==
  IF i > Len(s) THEN 0
  ELSE IF s[i] = "'" THEN i
  ELSE IF s[i] = "\\"
       THEN IF i + 1 <= Len(s) /\ s[i + 1] \notin {"\n", "\r"}
            THEN quoteEnd(s, i + 2) ELSE 0
  ELSE quoteEnd(s, i + 1)

\* '...'|NULL|\d+(?:\.\d+)?|CURRENT_TIMESTAMP(?:\(\))? at position p: the
\* position after the value, 0 without a match
defaultValueAt(s, p) ==
  LET d == skipClass(s, p, Digits)
      f == skipClass(s, d + 1, Digits)
  IN  IF charAt(s, p, "'")
      THEN IF quoteEnd(s, p + 1) # 0 THEN quoteEnd(s, p + 1) + 1 ELSE 0
      ELSE IF literalAt(s, p, <<"N","U","L","L">>) THEN p + 4
      ELSE IF d > p
           THEN IF charAt(s, d, ".") /\ f > d + 1 THEN f ELSE d
      ELSE IF literalAt(s, p, <<"C","U","R","R","E","N","T","_","T","I","M","E","S","T","A","M","P">>)
           THEN IF literalAt(s, p + 17, <<"(",")">>) THEN p + 19 ELSE p + 17
      ELSE 0

\* definition.match(/DEFAULT\s+(...)/i)?.[1]
defaultOf(s) ==
  LET hits == {p \in 1..Len(s) :
                 LET w == skipClass(s, p + 7, Spaces)
                 IN  /\ literalAt(s, p, <<"D","E","F","A","U","L","T">>)
                     /\ w > p + 7
                     /\ defaultValueAt(s, w) # 0}
  IN  IF hits = {} THEN Undefined
      ELSE LET w == skipClass(s, First(hits) + 7, Spaces)
           IN  Some(SubSeq(s, w, defaultValueAt(s, w) - 1))

\* s.match(/<keyword><gap>'([^']*)'/i)?.[1], the gap being \s+ for a column
\* comment and \s*=\s* for a table comment
quotedAfter(s, keyword, equals) ==
  LET valueAt(p) ==
        LET a == skipClass(s, p + Len(keyword), Spaces)
            b == IF equals THEN skipClass(s, a + 1, Spaces) ELSE a
        IN  IF /\ literalAt(s, p, keyword)
               /\ (IF equals THEN charAt(s, a, "=") ELSE a > p + Len(keyword))
               /\ charAt(s, b, "'")
               /\ indexOf(s, "'", b + 1) # 0
            THEN b ELSE 0
      hits == {p \in 1..Len(s) : valueAt(p) # 0}
  IN  IF hits = {} THEN Undefined
      ELSE LET b == valueAt(First(hits))
           IN  Some(SubSeq(s, b + 1, indexOf(s, "'", b + 1) - 1))

\* s.match(/<keyword>\s*=\s*(\w+)/i)?.[1]
wordAfter(s, keyword) ==
  LET valueAt(p) ==
        LET a == skipClass(s, p + Len(keyword), Spaces)
            b == skipClass(s, a + 1, Spaces)
        IN  IF /\ literalAt(s, p, keyword)
               /\ charAt(s, a, "=")
               /\ skipClass(s, b, WordChars) > b
            THEN b ELSE 0
      hits == {p \in 1..Len(s) : valueAt(p) # 0}
  IN  IF hits = {} THEN Undefined
      ELSE LET b == valueAt(First(hits))
           IN  Some(SubSeq(s, b, skipClass(s, b, WordChars) - 1))

\* /NOT\s+NULL/i.test(definition)
hasNotNull(s) ==
  \E p \in 1..Len(s) :
    LET w == skipClass(s, p + 3, Spaces)
    IN  literalAt(s, p, <<"N","O","T">>) /\ w > p + 3 /\ literalAt(s, w, <<"N","U","L","L">>)

\* /AUTO_INCREMENT/i.test(definition)
hasAutoIncrement(s) == \E p \in 1..Len(s) : literalAt(s, p, <<"A","U","T","O","_","I","N","C","R","E","M","E","N","T">>)

\* parseColumn: ^`?(\w+)`?\s+(\w+(?:\([^)]*\))?(?:\s+(?:unsigned|signed))?)
parseColumn(definition) ==
  LET n0 == optionalAt(definition, 1, Backtick)
      n1 == skipClass(definition, n0, WordChars)
      n2 == optionalAt(definition, n1, Backtick)
      t0 == skipClass(definition, n2, Spaces)
      t1 == skipClass(definition, t0, WordChars)
      t2 == signAt(definition, typeParametersAt(definition, t1))
      name == SubSeq(definition, n0, n1 - 1)
  IN  IF ~(n1 > n0 /\ t0 > n2 /\ t1 > t0) THEN Undefined
      ELSE IF toLowerCase(name) \in {toLowerCase(k) : k \in ColumnKeywords}
      THEN Undefined
      ELSE Some(ColumnDefinition(name,
                                 SubSeq(definition, t0, t2 - 1),
                                 ~hasNotNull(definition),
                                 defaultOf(definition),
                                 hasAutoIncrement(definition),
                                 quotedAfter(definition, <<"C","O","M","M","E","N","T">>, FALSE)))

\* replace(/\(\d+\)/, ''): the first parenthesised number is removed
removeSize(s) ==
  LET hits == {i \in 1..Len(s) :
                 LET e == skipClass(s, i + 1, Digits)
                 IN  s[i] = "(" /\ e > i + 1 /\ charAt(s, e, ")")}
  IN  IF hits = {} THEN s
      ELSE LET i == First(hits)
           IN  SubSeq(s, 1, i - 1)
                 \o SubSeq(s, skipClass(s, i + 1, Digits) + 1, Len(s))

\* parseIndexColumns
parseIndexColumns(columnList) ==
  LET pieces == splitCommas(columnList)
      names  == [n \in 1..Len(pieces) |->
                   removeSize(SelectSeq(trim(pieces[n]), LAMBDA ch : ch # Backtick))]
  IN  SelectSeq(names, LAMBDA name : name # << >>)

\* \s*\(([^)]+)\) at position p: the captured column list
columnListAt(s, p) ==
  LET open  == skipClass(s, p, Spaces)
      close == indexOf(s, ")", open + 1)
  IN  IF charAt(s, open, "(") /\ close > open + 1
      THEN Some(SubSeq(s, open + 1, close - 1)) ELSE Undefined

\* The IndexDefinition of a match that captured a name and a column list
indexOver(name, type, columnList) ==
  IF columnList = Undefined THEN Undefined
  ELSE Some([name    |-> name,
             type    |-> type,
             columns |-> parseIndexColumns(columnList[1])])

\* (?:KEY|INDEX)\s+ at position p: the position after it, 0 without a match
keyWordAt(s, p) ==
  LET k == IF literalAt(s, p, <<"K","E","Y">>) THEN p + 3
           ELSE IF literalAt(s, p, <<"I","N","D","E","X">>) THEN p + 5 ELSE 0
  IN  IF k # 0 /\ skipClass(s, k, Spaces) > k THEN skipClass(s, k, Spaces) ELSE 0

\* `?(\w+)`?\s*\(([^)]+)\) at position n0 - 1 or n0, the name ending before n1
namedColumnsAt(s, n0, n1, type) ==
  IF n1 > n0
  THEN indexOver(SubSeq(s, n0, n1 - 1), type,
                 columnListAt(s, optionalAt(s, n1, Backtick)))
  ELSE Undefined

\* `?(\w+) at position w
nameAt(s, w, type) ==
  namedColumnsAt(s, optionalAt(s, w, Backtick),
                 skipClass(s, optionalAt(s, w, Backtick), WordChars), type)

\* (?:KEY|INDEX)\s+`?(\w+)`?\s*\(([^)]+)\) at position p
namedKeyAt(s, p, type) ==
  IF keyWordAt(s, p) # 0 THEN nameAt(s, keyWordAt(s, p), type) ELSE Undefined

\* <keyword>\s+ at the start of a definition: the position after it, 0
\* without a match
leadingKeyword(s, keyword) ==
  LET w == skipClass(s, Len(keyword) + 1, Spaces)
  IN  IF literalAt(s, 1, keyword) /\ w > Len(keyword) + 1 THEN w ELSE 0

\* KEY\s*\(([^)]+)\) at position k
primaryColumnsAt(s, k) ==
  IF k # 0 /\ literalAt(s, k, <<"K","E","Y">>)
  THEN indexOver(<<"P","R","I","M","A","R","Y">>, "PRIMARY", columnListAt(s, k + 3))
  ELSE Undefined

\* ^PRIMARY\s+KEY\s*\(([^)]+)\)
primaryKeyOf(s) ==
  primaryColumnsAt(s, leadingKeyword(s, <<"P","R","I","M","A","R","Y">>))

\* The first match of the patterns tried in turn
firstMatch(matches) ==
  LET hits == {n \in 1..Len(matches) : matches[n] # Undefined}
  IN  IF hits = {} THEN Undefined ELSE matches[First(hits)]

\* parseIndex: PRIMARY KEY, UNIQUE KEY/INDEX, FULLTEXT KEY/INDEX, KEY/INDEX
parseIndex(definition) ==
  firstMatch(<<primaryKeyOf(definition),
               namedKeyAt(definition,
                          leadingKeyword(definition, <<"U","N","I","Q","U","E">>),
                          "UNIQUE"),
               namedKeyAt(definition,
                          leadingKeyword(definition, <<"F","U","L","L","T","E","X","T">>),
                          "FULLTEXT"),
               namedKeyAt(definition, 1, "INDEX")>>)

\* The definitions of a table body: the trimmed parts that are not empty
definitionsOf(parts) ==
  SelectSeq([n \in 1..Len(parts) |-> trim(parts[n])], LAMBDA part : part # << >>)

\* What the loop over the parts makes of one definition: an index when
\* parseIndex matches, else a column when parseColumn matches, else nothing
definitionOf(part) == [index |-> parseIndex(part), column |-> parseColumn(part)]

columnsOf(others) == [n \in 1..Len(others) |-> others[n].column[1]]

indexesOf(keys) == [n \in 1..Len(keys) |-> keys[n].index[1]]

\* The TableSchema pushed for a name, the parsed definitions and the suffix
tableOf(name, parsed, suffix) ==
  [name      |-> name,
   shortName |-> stripPrefix(name),
   columns   |-> columnsOf(SelectSeq(parsed,
                   LAMBDA d : d.index = Undefined /\ d.column # Undefined)),
   indexes   |-> indexesOf(SelectSeq(parsed, LAMBDA d : d.index # Undefined)),
   engine    |-> wordAfter(suffix, <<"E","N","G","I","N","E">>),
   charset   |-> wordAfter(suffix, <<"C","H","A","R","S","E","T">>),
   comment   |-> quotedAfter(suffix, <<"C","O","M","M","E","N","T">>, TRUE)]

partsParsed(definitions) ==
  [n \in 1..Len(definitions) |-> definitionOf(definitions[n])]

\* The TableSchema of one match of createTableRegex
tableSchemaOf(match) ==
  tableOf(match.name,
          partsParsed(definitionsOf(splitTableBody(match.body))),
          match.suffix)

\* The loop of parseSql from position from of the content
RECURSIVE parseSqlFrom(_, _)
parseSqlFrom(content, from) ==
  LET match == execCreateTable(content, from)
  IN  IF match = Undefined THEN << >>
      ELSE <<tableSchemaOf(match[1])>> \o parseSqlFrom(content, match[1].end)

parseSql(content) == parseSqlFrom(content, 1)

\* An entry of the SQL directory: whether it is a regular file named *.sql,
\* whether readFile succeeds, and its content
SqlFile(isSql, readable, content) ==
  [isSql |-> isSql, readable |-> readable, content |-> content]

\* The SQL directory: whether readdir succeeds, and its entries
SqlDir(readable, entries) == [readable |-> readable, entries |-> entries]

\* As tableMapOf keeping the first table of each shortName
tableMapFirstWins(tables) ==
  LET keys == firstAssignments(tables, "shortName")
  IN  [isMap   |-> TRUE,
       entries |-> [n \in 1..Len(keys) |->
                      [key |-> tables[keys[n]].shortName, value |-> tables[keys[n]]]]]

\* new Map(), then tableMap.set(t.shortName, t) for each table in turn
tableMapOf(tables) ==
  LET keys == firstAssignments(tables, "shortName")
  IN  [isMap   |-> TRUE,
       entries |-> [n \in 1..Len(keys) |->
                      [key   |-> tables[keys[n]].shortName,
                       value |-> lastAssigned(tables, "shortName",
                                              tables[keys[n]].shortName)]]]

\* parseDirectory: the tables of the *.sql files in directory order; an error
\* of readdir or readFile ends the loop and keeps the tables pushed so far
schemaOf(tables) == [tables |-> tables, tableMap |-> tableMapOf(tables)]

parseDirectory(dir) ==
  LET sqlFiles == IF dir.readable
                  THEN SelectSeq(dir.entries, LAMBDA e : e.isSql) ELSE << >>
      failed   == {k \in 1..Len(sqlFiles) : ~sqlFiles[k].readable}
      read     == IF failed = {} THEN Len(sqlFiles) ELSE First(failed) - 1
  IN  schemaOf(flatten([k \in 1..read |-> parseSql(sqlFiles[k].content)]))

(***************************************************************************)
(* registry.ts: the tool handlers                                          *)
(***************************************************************************)
IndexNotBuilt == "Index not built. Run joomla_sync first."

NoResponse == [tool |-> "none"]

Response(tool, input, isError, result) ==
  [tool |-> tool, input |-> input, isError |-> isError, result |-> result]

\* The index artifact: whether JSON.parse accepts the text of the file, and
\* the value it gives
Artifact(parses, value) == Some([parses |-> parses, value |-> value])

\* saveIndex: JSON.stringify(index).  Every field of the index is a string,
\* an array or a plain object, and a field that is undefined is left out, as
\* it is when the record is read back.
indexJson(index) == Artifact(TRUE, index)

NoSyncTask == [pc |-> "idle"]

\* index.ts: lspBridge = null
NoBridge == [created |-> FALSE]

\* No bridge takes part
\* URIs of the documents handed to the language server: a file of the
\* workspace and the virtual file of an inline code
FileUri == "file:///ws/a.php"

VirtualUri == "file:///ws/.mcp-virtual/virtual_0cc175b9.php"

Uris == {FileUri, VirtualUri}

\* Child processes the bridge spawns, numbered in the order of spawning
MaxSpawns == 4

Pids == 1..MaxSpawns

\* LSP operations, numbered in the order they are called
MaxOps == 2

OpIds == 1..MaxOps

Unspawned == [alive |-> FALSE, exit |-> "unspawned", log |-> << >>]

NoChildren == [pid \in Pids |-> Unspawned]

UnusedOp == [pc |-> "unused"]

NoOps == [o \in OpIds |-> UnusedOp]

\* Calls of waitForDiagnostics, numbered in the order they are made
MaxCalls == 3

CallIds == 1..MaxCalls

\* this.waiters and this.diagnosticStore, both empty.  waiters holds for a
\* URI the call whose resolver is registered, or 0
NoWaiter == [waiters |-> [u \in Uris |-> 0], store |-> [u \in Uris |-> Undefined]]

\* A promise returned by waitForDiagnostics: its timer, whether it has
\* settled, the value it settled with and the times resolve was invoked
Call(state, uri, timer, result, resolutions) ==
  [state |-> state, uri |-> uri, timer |-> timer, result |-> result,
   resolutions |-> resolutions]

UnusedCall == [state |-> "unused"]

NoCalls == [c \in CallIds |-> UnusedCall]

LspIdle ==
  /\ bridge = NoBridge
  /\ waiter = NoWaiter
  /\ calls = NoCalls
  /\ children = NoChildren
  /\ ops = NoOps

\* The state of a server that runs with a clone and no call in flight
Serving(artifact) ==
  /\ checkout = TRUE
  /\ indexFile = artifact
  /\ syncTask = NoSyncTask
  /\ server = "running"

\* joomla_sync: the index is rebuilt from the synced tree and replaces the
\* current one only when the sync succeeded.
Sync(success) ==
  /\ server = "running"
  /\ joomlaIndex' = IF success THEN buildIndex(sourceTree) ELSE joomlaIndex
  /\ response' = Response("joomla_sync", << >>, ~success, << >>)
  /\ checkout' = (checkout \/ success)
  /\ indexFile' = IF success THEN indexJson(buildIndex(sourceTree)) ELSE indexFile
  /\ UNCHANGED <<sourceTree, sqlDir, schemaCache, schemaIndex, syncTask, server,
                 lspVars>>

\* The guard shared by the index tools: an error without an index, the
\* tool's result otherwise.
IndexTool(tool, input, result) ==
  /\ server = "running"
  /\ response' = IF joomlaIndex = NoIndex
                 THEN Response(tool, input, TRUE, IndexNotBuilt)
                 ELSE Response(tool, input, FALSE, result)
  /\ UNCHANGED <<sourceTree, joomlaIndex, sqlDir, schemaCache, schemaIndex,
                 startupVars, lspVars>>

LookupClassTool(input) ==
  IndexTool("joomla_lookup_class", input, lookupClass(joomlaIndex, input))

SearchTool(input) ==
  IndexTool("joomla_search", input, search(joomlaIndex, input))

ListEventsTool(input) ==
  IndexTool("joomla_list_events", input, listEvents(joomlaIndex, input))

(***************************************************************************)
(* index.ts: the schema at startup                                         *)
(***************************************************************************)
NoSchema == [tables |-> << >>, tableMap |-> [isMap |-> FALSE, entries |-> << >>],
             loaded |-> FALSE]

\* JSON.parse(JSON.stringify(schema)): the tables keep every defined field; a
\* Map has no enumerable own property and is written as {}
jsonRoundTrip(schema) ==
  [tables |-> schema.tables, tableMap |-> [isMap |-> FALSE, entries |-> << >>]]

Loaded(schema) ==
  [tables |-> schema.tables, tableMap |-> schema.tableMap, loaded |-> TRUE]

\* The SQL directory before the first sync: readdir fails
NoSqlDir == SqlDir(FALSE, << >>)

\* loadSchema: the cached JSON when it holds tables, else the parsed
\* directory, cached when it holds tables, else null
SchemaLoaded ==
  \E parsed \in {parseDirectory(IF checkout THEN sqlDir ELSE NoSqlDir)} :
      IF schemaCache # Undefined /\ Len(schemaCache[1].tables) > 0
      THEN /\ schemaIndex' = Loaded(schemaCache[1])
           /\ UNCHANGED schemaCache
      ELSE IF Len(parsed.tables) > 0
      THEN /\ schemaIndex' = Loaded(parsed)
           /\ schemaCache' = Some(jsonRoundTrip(parsed))
      ELSE /\ schemaIndex' = NoSchema
           /\ UNCHANGED schemaCache

LoadSchema ==
  /\ SchemaLoaded
  /\ UNCHANGED <<sourceTree, joomlaIndex, response, sqlDir, startupVars, lspVars>>

(***************************************************************************)
(* schema.ts: the schema lookup                                            *)
(***************************************************************************)
\* The text of formatTableSchema: the name, comment, engine and charset of
\* the table, a row for each column and a line for each index
formatTableSchema(table) ==
  [kind    |-> "table",
   name    |-> table.name,
   comment |-> table.comment,
   engine  |-> table.engine,
   charset |-> table.charset,
   columns |-> table.columns,
   indexes |-> table.indexes]

\* schema.tableMap[key]: a property of the object.  The entries of a Map are
\* not properties of it; a plain object holds its own keys.  (Keys that name a
\* member of Map.prototype or Object.prototype are outside the inputs.)
propertyOf(tableMap, key) ==
  LET own == {n \in 1..Len(tableMap.entries) : tableMap.entries[n].key = key}
  IN  IF tableMap.isMap \/ own = {} THEN Undefined
      ELSE Some(tableMap.entries[First(own)].value)

ComponentPrefix == <<"c","o","m","_">>

\* lookupSchema, tableName branch
lookupTable(schema, tableName) ==
  LET normalised == stripPrefix(tableName)
      table      == propertyOf(schema.tableMap, normalised)
      matches    == SelectSeq(schema.tables,
                      LAMBDA t : \/ includes(t.shortName, normalised)
                                 \/ includes(t.name, tableName))
  IN  IF table # Undefined THEN formatTableSchema(table[1])
      ELSE IF Len(matches) = 1 THEN formatTableSchema(matches[1])
      ELSE IF Len(matches) > 1
      THEN [kind |-> "multiple", names |-> [n \in 1..Len(matches) |-> matches[n].name]]
      ELSE [kind |-> "notFound"]

\* lookupSchema, component branch
lookupComponent(schema, component) ==
  LET compName == IF startsWith(component, ComponentPrefix)
                  THEN SubSeq(component, Len(ComponentPrefix) + 1, Len(component))
                  ELSE component
      matches  == SelectSeq(schema.tables,
                    LAMBDA t : \/ startsWith(t.shortName, compName \o <<"_">>)
                               \/ t.shortName = compName)
  IN  IF Len(matches) = 0 THEN [kind |-> "noComponentTables"]
      ELSE [kind   |-> "tables",
            tables |-> [n \in 1..Len(matches) |-> formatTableSchema(matches[n])]]

\* The text of formatSchemaList: the count and the name of every table with
\* its number of columns (the grouping and sorting of the lines are left out)
formatSchemaList(schema) ==
  [kind   |-> "list",
   count  |-> Len(schema.tables),
   tables |-> {[name |-> schema.tables[n].name,
                columns |-> Len(schema.tables[n].columns)] :
                 n \in 1..Len(schema.tables)}]

lookupSchema(schema, input) ==
  IF input.listAll THEN formatSchemaList(schema)
  ELSE IF Truthy(input.tableName) THEN lookupTable(schema, input.tableName[1])
  ELSE IF Truthy(input.component) THEN lookupComponent(schema, input.component[1])
  ELSE [kind |-> "usage"]

SchemaNotAvailable == "Schema not available. Run joomla_sync first to fetch SQL files."

\* joomla_schema
SchemaTool(input) ==
  /\ server = "running"
  /\ response' = IF ~schemaIndex.loaded
                 THEN Response("joomla_schema", input, TRUE, SchemaNotAvailable)
                 ELSE Response("joomla_schema", input, FALSE,
                               lookupSchema(schemaIndex, input))
  /\ UNCHANGED <<sourceTree, joomlaIndex, sqlDir, schemaCache, schemaIndex,
                 startupVars, lspVars>>

EmptySqlDir == SqlDir(TRUE, << >>)

\* The schema state before loadSchema runs
SchemaUnloaded(dir) ==
  /\ sqlDir = dir
  /\ schemaCache = Undefined
  /\ schemaIndex = NoSchema

(***************************************************************************)
(* Bounds and input universes                                              *)
(***************************************************************************)
\* Files of a source tree enumerated exhaustively
MaxFiles == 2

\* Generated trees reach each cap of the tools and this many entries beyond
BulkSlack == 1

SeqsUpTo(S, n) == UNION {[1..k -> S] : k \in 0..n}

\* A tree whose files are all read and parsed
Discovered(tree) == [k \in DOMAIN tree |-> SourceFile(TRUE, TRUE, tree[k])]

BulkSizes(caps) == UNION {(c - 1)..(c + BulkSlack) : c \in caps}

NoMembers == << >>

Str_A == <<"A">>

Str_B == <<"B">>

Str_Wi == <<"W","i">>

Str_get == <<"g","e","t">>

PlainClass(name, namespace) ==
  parseClassNode(name, namespace, Undefined, Undefined,
                 NoMembers, NoMembers, NoMembers)

\* Widget, WidgetFactory and their neighbours: a duplicated simple name, a
\* duplicated FQN, a case variant in the global namespace, a namespace that
\* contains the query, and names near to and far from it.
L_Wi_A == parseClassNode(Str_Wi, Str_A, Undefined, Undefined,
            <<ParsedMethod(Str_get, Undefined, << >>)>>, NoMembers, NoMembers)

L_WiF_A == PlainClass(<<"W","i","F">>, Str_A)

L_Wi_B == PlainClass(Str_Wi, Str_B)

L_wi_global == PlainClass(<<"w","i">>, << >>)

L_Z_Wi == PlainClass(<<"Z">>, Str_Wi)

L_Wi_A_again == PlainClass(Str_Wi, Str_A)

L_Qrstu == PlainClass(<<"Q","r","s","t","u">>, << >>)

LookupFiles ==
  { <<L_Wi_A>>, <<L_WiF_A>>, <<L_Wi_B>>, <<L_wi_global>>, <<L_Z_Wi>>,
    <<L_Wi_A_again>>, <<L_Qrstu>> }

\* n declarations A\Wia, A\Wib, ... in one namespace
BulkClass(k) == PlainClass(Str_Wi \o <<LowerAlpha[k]>>, Str_A)

BulkTree(n) == [k \in 1..n |-> <<BulkClass(k)>>]

LookupTrees ==
  SeqsUpTo(LookupFiles, MaxFiles)
    \cup {BulkTree(n) : n \in BulkSizes({MaxFuzzySuggestions, MaxPartialSuggestions})}
    \cup {BulkTree(n) \o <<f>> :
            n \in BulkSizes({MaxPartialSuggestions}), f \in {<<L_Z_Wi>>}}

LookupQueries ==
  { Str_Wi, <<"A","\\","W","i">>, <<"a","\\","w","i">>, <<"i">>,
    <<"W","x">>, <<"z","z","z","z","z","z">> }

LookupMethodNames == { Some(Str_get), Some(<<"g">>) }

\* Every query without a member, and a member asked of two of them
LookupInputs ==
  [className : LookupQueries, methodName : {Undefined}]
    \cup [className : {Str_Wi, <<"i">>}, methodName : LookupMethodNames]

(***************************************************************************)
(* Specification of the class lookup                                       *)
(***************************************************************************)
InitLookup ==
  /\ sourceTree \in {Discovered(tree) : tree \in LookupTrees}
  /\ joomlaIndex = NoIndex
  /\ response = NoResponse
  /\ SchemaUnloaded(EmptySqlDir)
  /\ Serving(Undefined)
  /\ LspIdle

SyncStep == \E success \in BOOLEAN : Sync(success)

LookupStep == \E input \in LookupInputs : LookupClassTool(input)

NextLookup == SyncStep \/ LookupStep

SpecLookup == InitLookup /\ [][NextLookup]_vars

(***************************************************************************)
(* Inputs of the search                                                    *)
(***************************************************************************)
Member(name) == [name |-> name]

S_Wi_A ==
  parseClassNode(Str_Wi, Str_A, Undefined, Undefined,
                 <<ParsedMethod(<<"a","W","i">>, Undefined, << >>)>>,
                 <<Member(<<"w","i">>)>>, NoMembers)

S_WiF_A ==
  parseClassNode(<<"W","i","F">>, Str_A, Undefined, Undefined,
                 NoMembers, NoMembers, <<Member(<<"W","I","X">>)>>)

S_Doc_B ==
  parseClassNode(<<"D","o","c">>, Str_B, Undefined, Some(<<"a"," ","w","i">>),
                 <<ParsedMethod(<<"r","u","n">>, Some(<<"w","i">>), << >>)>>,
                 NoMembers, NoMembers)

S_aWi_global == PlainClass(<<"a","W","i">>, << >>)

S_Q_Wi == PlainClass(<<"Q">>, Str_Wi)

S_Zed_B ==
  parseClassNode(<<"Z","e","d">>, Str_B, Undefined, Undefined,
                 NoMembers, <<Member(<<"z","e","d">>)>>, NoMembers)

SearchFiles ==
  { <<S_Wi_A>>, <<S_WiF_A>>, <<S_Doc_B>>, <<S_aWi_global>>, <<S_Q_Wi>>,
    <<S_Zed_B>> }

SearchTrees ==
  SeqsUpTo(SearchFiles, MaxFiles)
    \cup {BulkTree(n) : n \in BulkSizes({DefaultSearchLimit})}

SearchQueries == { Str_Wi, <<"z","z">>, <<"d">> }

SearchTypes == { "class", "method", "constant", "property", "all" }

SearchLimits == { Undefined, Some(0), Some(2), Some(-1) }

\* Every query under every limit, and one query under every type filter
SearchInputs ==
  [query : SearchQueries, type : {Undefined}, limit : SearchLimits]
    \cup [query : {Str_Wi}, type : {Some(t) : t \in SearchTypes},
          limit : {Undefined}]

(***************************************************************************)
(* Specification of the search                                             *)
(***************************************************************************)
InitSearch ==
  /\ sourceTree \in {Discovered(tree) : tree \in SearchTrees}
  /\ joomlaIndex = NoIndex
  /\ response = NoResponse
  /\ SchemaUnloaded(EmptySqlDir)
  /\ Serving(Undefined)
  /\ LspIdle

SearchStep == \E input \in SearchInputs : SearchTool(input)

NextSearch == SyncStep \/ SearchStep

SpecSearch == InitSearch /\ [][NextSearch]_vars

(***************************************************************************)
(* Inputs of the event list                                                *)
(***************************************************************************)
Str_AppEvent == <<"A","p","p","\\","E","v","e","n","t">>

Str_AppEventNetwork == <<"A","p","p","\\","E","v","e","n","t","\\","N","e","t","w","o","r","k">>

Str_PingEvent == <<"P","i","n","g","E","v","e","n","t">>

Str_Foo == <<"F","o","o">>

\* Scenario C: class PingEvent extends AbstractEvent, __construct(string $host)
E_Ping ==
  parseClassNode(Str_PingEvent, Str_AppEventNetwork, Some(AbstractEventStr),
                 Some(<<"S","e","n","t">>),
                 <<ParsedMethod(ConstructStr, Undefined,
                     <<ParsedParameter(<<"h","o","s","t">>, Some(<<"s","t","r","i","n","g">>), Undefined)>>)>>,
                 NoMembers, NoMembers)

\* The same FQN declared again, without parent, constructor or comment
E_Ping_again == PlainClass(Str_PingEvent, Str_AppEventNetwork)

\* Qualifies by its parent only, in the bare Event sub-namespace
E_Foo_extends ==
  parseClassNode(Str_Foo, Str_AppEvent, Some(<<"B","a","s","e","E","v","e","n","t">>), Some(<<"A","f","t","e","r"," ","a"," ","p","i","n","g">>),
                 NoMembers, NoMembers, NoMembers)

\* A name of the exclusion set with a qualifying parent
E_Dispatcher ==
  parseClassNode(<<"E","v","e","n","t","D","i","s","p","a","t","c","h","e","r">>, Str_AppEvent, Some(AbstractEventStr),
                 Undefined, NoMembers, NoMembers, NoMembers)

\* The namespace is the Event segment alone
E_Bare == PlainClass(<<"B","a","r","e","E","v","e","n","t">>, EventStr)

\* The namespace begins with the Event segment
E_Leading == PlainClass(<<"L","e","a","d","E","v","e","n","t">>, <<"E","v","e","n","t","\\","S","u","b">>)

\* Event is part of a segment, not a segment
E_Inside == PlainClass(<<"I","n","E","v","e","n","t">>, <<"A","p","p","\\","M","y","E","v","e","n","t","\\","X">>)

\* Neither the name nor a parent marks it as an event
E_Plain == PlainClass(<<"P","l","a","i","n">>, Str_AppEvent)

\* An event by name outside any Event namespace
E_Outside == PlainClass(<<"P","o","n","g","E","v","e","n","t">>, <<"A","p","p">>)

\* class RetryEvent, __construct($count = 3, ?int $delay, string $tag = "x")
E_Retry ==
  parseClassNode(<<"R","e","t","r","y">> \o EventStr, Str_AppEvent, Undefined,
                 Undefined,
                 <<ParsedMethod(Str_get, Undefined, << >>),
                   ParsedMethod(ConstructStr, Undefined,
                     <<ParsedParameter(<<"c","o","u","n","t">>, Undefined, Some(<<"3">>)),
                       ParsedParameter(<<"d","e","l","a","y">>, Some(<<"?","i","n","t">>), Undefined),
                       ParsedParameter(<<"t","a","g">>, Some(<<"s","t","r","i","n","g">>),
                                       Some(<<"\"","x","\"">>))>>)>>,
                 NoMembers, NoMembers)

EventFiles ==
  { <<E_Ping>>, <<E_Ping_again>>, <<E_Foo_extends>>, <<E_Dispatcher>>, <<E_Retry>>,
    <<E_Bare>>, <<E_Leading>>, <<E_Inside>>, <<E_Plain>>, <<E_Outside>> }

\* n events App\Event\aaEvent, App\Event\abEvent, ...
BulkEvent(k) ==
  PlainClass(<<LowerAlpha[((k - 1) \div 26) + 1], LowerAlpha[((k - 1) % 26) + 1]>>
               \o EventStr, Str_AppEvent)

BulkEventTree(n) == [k \in 1..n |-> <<BulkEvent(k)>>]

EventTrees ==
  SeqsUpTo(EventFiles, MaxFiles)
    \cup {BulkEventTree(n) : n \in BulkSizes({DefaultEventLimit, MaxEventLimit})}

EventFilters == { Undefined, Some(<<"P","i","n","g">>), Some(<<"a","f","t","e","r">>) }

EventNamespaces == { Undefined, Some(<<"N","E","T","W","O","R","K">>) }

EventLimits == { Undefined, Some(-1), Some(0), Some(1), Some(2), Some(500) }

\* Every pair of filters under the default limit, every limit without
\* filters, and the lowest limits under a filter
ListEventsInputs ==
  [filter : EventFilters, namespace : EventNamespaces, limit : {Undefined}]
    \cup [filter : {Undefined}, namespace : {Undefined}, limit : EventLimits]
    \cup [filter : {Some(<<"P","i","n","g">>)}, namespace : {Undefined},
          limit : {Some(0), Some(1)}]

(***************************************************************************)
(* Specification of the event list                                         *)
(***************************************************************************)
InitEvents ==
  /\ sourceTree \in {Discovered(tree) : tree \in EventTrees}
  /\ joomlaIndex = NoIndex
  /\ response = NoResponse
  /\ SchemaUnloaded(EmptySqlDir)
  /\ Serving(Undefined)
  /\ LspIdle

ListEventsStep == \E input \in ListEventsInputs : ListEventsTool(input)

NextEvents == SyncStep \/ ListEventsStep

SpecEvents == InitEvents /\ [][NextEvents]_vars

(***************************************************************************)
(* Specification of the schema: SQL statements and their text              *)
(***************************************************************************)
\* A column definition of a CREATE TABLE body
Column(name, type, notNull, default, autoIncrement) ==
  [kind |-> "column", name |-> name, type |-> type, notNull |-> notNull,
   default |-> default, autoIncrement |-> autoIncrement, columns |-> << >>]

\* A key definition; each key column is a name with an optional size
Key(type, name, columns) ==
  [kind |-> "key", name |-> name, type |-> type, notNull |-> FALSE,
   default |-> Undefined, autoIncrement |-> FALSE, columns |-> columns]

KeyColumn(name, size) == [name |-> name, size |-> size]

\* A CREATE TABLE statement; quoted tells whether the names of its columns
\* and keys stand between backticks
Statement(name, quoted, definitions, engine, charset) ==
  [name |-> name, quoted |-> quoted, definitions |-> definitions,
   engine |-> engine, charset |-> charset]

identifierText(name, quoted) ==
  IF quoted THEN <<Backtick>> \o name \o <<Backtick>> ELSE name

keyColumnText(c, quoted) ==
  identifierText(c.name, quoted)
    \o (IF c.size = Undefined THEN << >> ELSE <<"(">> \o c.size[1] \o <<")">>)

\* The items of a list separated by ", "
commaSeparated(items) ==
  flatten([n \in 1..Len(items) |->
             (IF n = 1 THEN << >> ELSE <<",", " ">>) \o items[n]])

definitionText(d, quoted) ==
  IF d.kind = "column"
  THEN identifierText(d.name, quoted) \o <<" ">> \o d.type
         \o (IF d.notNull THEN <<" ","N","O","T"," ","N","U","L","L">> ELSE << >>)
         \o (IF d.default = Undefined THEN << >> ELSE <<" ","D","E","F","A","U","L","T"," ">> \o d.default[1])
         \o (IF d.autoIncrement THEN <<" ","A","U","T","O","_","I","N","C","R","E","M","E","N","T">> ELSE << >>)
  ELSE (IF d.type = "PRIMARY" THEN <<"P","R","I","M","A","R","Y"," ","K","E","Y">>
        ELSE (IF d.type = "UNIQUE" THEN <<"U","N","I","Q","U","E"," ","K","E","Y"," ">> ELSE <<"K","E","Y"," ">>)
               \o identifierText(d.name, quoted))
         \o <<" ", "(">>
         \o commaSeparated([n \in 1..Len(d.columns) |->
                              keyColumnText(d.columns[n], quoted)])
         \o <<")">>

\* The SQL text of a statement
statementText(st) ==
  <<"C","R","E","A","T","E"," ","T","A","B","L","E"," ">> \o <<Backtick>> \o st.name \o <<Backtick>> \o <<" ", "(">>
    \o commaSeparated([n \in 1..Len(st.definitions) |->
                         definitionText(st.definitions[n], st.quoted)])
    \o <<")">>
    \o (IF st.engine = Undefined THEN << >> ELSE <<" ","E","N","G","I","N","E","=">> \o st.engine[1])
    \o (IF st.charset = Undefined THEN << >>
        ELSE <<" ","D","E","F","A","U","L","T"," ","C","H","A","R","S","E","T","=">> \o st.charset[1])
    \o <<";", "\n">>

\* The text of a file holding the statements in order
fileText(statements) ==
  flatten([n \in 1..Len(statements) |-> statementText(statements[n])])

Str_id == <<"i","d">>

Str_int == <<"i","n","t">>

Str_InnoDB == <<"I","n","n","o","D","B">>

Col_id == Column(Str_id, Str_int, TRUE, Undefined, FALSE)

\* Scenario A
St_ScenarioA ==
  Statement(<<"#","_","_","c","o","n","t","e","n","t">>, TRUE,
    << Column(Str_id, <<"i","n","t"," ","u","n","s","i","g","n","e","d">>, TRUE, Undefined, TRUE),
       Column(<<"t","i","t","l","e">>, <<"v","a","r","c","h","a","r","(","2","5","5",")">>, TRUE, Some(<<"'","'">>), FALSE),
       Key("PRIMARY", <<"P","R","I","M","A","R","Y">>, <<KeyColumn(Str_id, Undefined)>>) >>,
    Some(Str_InnoDB), Some(<<"u","t","f","8","m","b","4">>))

\* No parenthesis in the body
St_Simple ==
  Statement(<<"#","_","_","s","i","m","p","l","e">>, TRUE,
    << Col_id, Column(<<"n","o","t","e">>, <<"t","e","x","t">>, FALSE, Some(<<"N","U","L","L">>), FALSE),
       Column(<<"b","l","o","c","k">>, <<"t","i","n","y","i","n","t">>, TRUE, Some(<<"0">>), FALSE) >>,
    Some(Str_InnoDB), Undefined)

\* A nullable column before the primary key
St_Nullable ==
  Statement(<<"#","_","_","n","o","t","e","s">>, TRUE,
    << Col_id, Column(<<"d","e","s","c","r","i","p","t","i","o","n">>, <<"t","e","x","t">>, FALSE, Undefined, FALSE),
       Key("PRIMARY", <<"P","R","I","M","A","R","Y">>, <<KeyColumn(Str_id, Undefined)>>) >>,
    Some(Str_InnoDB), Undefined)

\* A NOT NULL column whose type has a parameter list
St_Varchar ==
  Statement(<<"#","_","_","t","a","g","s">>, TRUE,
    << Column(<<"t","a","g">>, <<"v","a","r","c","h","a","r","(","6","4",")">>, TRUE, Undefined, FALSE) >>,
    Undefined, Undefined)

\* P8: commas inside the parentheses of a type, and a column after it
St_Enum ==
  Statement(<<"#","_","_","s","t","a","t","u","s">>, TRUE,
    << Column(<<"s","t","a","t","e">>, <<"E","N","U","M","(","'","a","'",",","'","b","'",",","'","c","'",")">>, TRUE, Undefined, FALSE),
       Column(<<"r","a","n","k">>, Str_int, FALSE, Undefined, FALSE) >>,
    Undefined, Undefined)

\* P7: KEY idx_alias (alias(191))
St_Alias ==
  Statement(<<"#","_","_","a","l","i","a","s">>, FALSE,
    << Col_id,
       Key("INDEX", <<"i","d","x","_","a","l","i","a","s">>, <<KeyColumn(<<"a","l","i","a","s">>, Some(<<"1","9","1">>))>>) >>,
    Undefined, Undefined)

\* A name that begins with the placeholder twice
St_Twice == Statement(<<"#","_","_","#","_","_","c","o","n","t","e","n","t">>, TRUE, <<Col_id>>, Undefined, Undefined)

\* #__content declared again, with another column
St_ContentAgain ==
  Statement(<<"#","_","_","c","o","n","t","e","n","t">>, TRUE,
    << Col_id, Column(<<"h","i","t","s">>, Str_int, TRUE, Some(<<"0">>), FALSE) >>,
    Some(<<"M","y","I","S","A","M">>), Undefined)

\* A table whose names contain "content"
St_ContentTypes ==
  Statement(<<"#","_","_","c","o","n","t","e","n","t","_","t","y","p","e","s">>, TRUE, <<Col_id>>, Some(Str_InnoDB), Undefined)

\* A table without the placeholder
St_Plain == Statement(<<"s","e","s","s","i","o","n","s">>, TRUE, <<Col_id>>, Undefined, Undefined)

SqlStatements ==
  { St_ScenarioA, St_Simple, St_Nullable, St_Varchar, St_Enum, St_Alias,
    St_Twice, St_ContentAgain, St_ContentTypes, St_Plain }

\* The statements of each .sql file
SqlFileStatements ==
  {<<st>> : st \in SqlStatements}
    \cup { <<St_ScenarioA, St_ContentTypes>>, <<St_ContentAgain, St_ContentTypes>>,
           <<St_Simple, St_Plain>> }

SoundSqlFile(statements) == SqlFile(TRUE, TRUE, fileText(statements))

\* A directory of one file for each list of statements, directories of two
\* files that declare #__content twice, and directories with an entry that is
\* not a .sql file, a file that cannot be read, or that cannot be listed
SchemaDirs ==
  {SqlDir(TRUE, <<SoundSqlFile(statements)>>) : statements \in SqlFileStatements}
    \cup { SqlDir(TRUE, <<SoundSqlFile(<<St_ScenarioA>>), SoundSqlFile(<<St_ContentAgain>>)>>),
           SqlDir(TRUE, <<SoundSqlFile(<<St_ContentAgain>>), SoundSqlFile(<<St_ScenarioA>>)>>),
           SqlDir(TRUE, <<SqlFile(FALSE, TRUE, fileText(<<St_Plain>>)),
                          SoundSqlFile(<<St_Simple>>)>>),
           SqlDir(TRUE, <<SoundSqlFile(<<St_Simple>>),
                          SqlFile(TRUE, FALSE, fileText(<<St_Twice>>)),
                          SoundSqlFile(<<St_Plain>>)>>),
           SqlDir(FALSE, <<SoundSqlFile(<<St_Simple>>)>>),
           EmptySqlDir }

SchemaInput(tableName, component, listAll) ==
  [tableName |-> tableName, component |-> component, listAll |-> listAll]

SchemaTableNames ==
  { <<"c","o","n","t","e","n","t">>, <<"#","_","_","c","o","n","t","e","n","t">>, <<"#","_","_","#","_","_","c","o","n","t","e","n","t">>, <<"s","i","m","p","l","e">>, <<"s">>,
    <<"t","y","p","e","s">>, <<"m","i","s","s","i","n","g">> }

SchemaInputs ==
  {SchemaInput(Some(name), Undefined, FALSE) : name \in SchemaTableNames}
    \cup { SchemaInput(Undefined, Some(<<"c","o","m","_","c","o","n","t","e","n","t">>), FALSE),
           SchemaInput(Undefined, Some(<<"c","o","m","_","m","i","s","s","i","n","g">>), FALSE),
           SchemaInput(Undefined, Undefined, TRUE),
           SchemaInput(Undefined, Undefined, FALSE) }

InitSchema ==
  /\ sourceTree = << >>
  /\ joomlaIndex = NoIndex
  /\ response = NoResponse
  /\ \E dir \in SchemaDirs : SchemaUnloaded(dir)
  /\ Serving(Undefined)
  /\ LspIdle

LoadSchemaStep == LoadSchema

SchemaStep == \E input \in SchemaInputs : SchemaTool(input)

NextSchema == LoadSchemaStep \/ SchemaStep

SpecSchema == InitSchema /\ [][NextSchema]_vars

(***************************************************************************)
(* Specification of the derived maps                                       *)
(***************************************************************************)
MapFiles == { <<E_Ping>>, <<E_Ping_again>>, <<E_Retry>> }

MapTrees == SeqsUpTo(MapFiles, MaxFiles)

\* #__content declared with its key alone
St_ContentShort ==
  Statement(<<"#","_","_","c","o","n","t","e","n","t">>, TRUE, <<Col_id>>, Some(Str_InnoDB), Undefined)

\* Files that declare #__content, one of them with a second table
MapStatements == { <<St_ContentShort>>, <<St_ContentAgain, St_Plain>> }

\* Directories of up to MaxFiles files
MapDirs ==
  {SqlDir(TRUE, [k \in DOMAIN files |-> SoundSqlFile(files[k])]) :
     files \in SeqsUpTo(MapStatements, MaxFiles)}

InitMaps ==
  /\ sourceTree \in {Discovered(tree) : tree \in MapTrees}
  /\ joomlaIndex = NoIndex
  /\ response = NoResponse
  /\ \E dir \in MapDirs : SchemaUnloaded(dir)
  /\ Serving(Undefined)
  /\ LspIdle

NextMaps == SyncStep \/ LoadSchemaStep

SpecMaps == InitMaps /\ [][NextMaps]_vars

(***************************************************************************)
(* Specification of the index build                                        *)
(***************************************************************************)
\* Files of a source tree of which any may fail
MaxBuildFiles == 3

BuildNodes == { << >>, <<E_Ping>>, <<E_Retry, E_Plain>> }

BuildFiles ==
  {SourceFile(TRUE, TRUE, nodes) : nodes \in BuildNodes}
    \cup {SourceFile(FALSE, TRUE, <<E_Ping>>),
          SourceFile(TRUE, FALSE, << >>),
          SourceFile(TRUE, FALSE, <<E_Retry, E_Plain>>)}

BuildTrees == SeqsUpTo(BuildFiles, MaxBuildFiles)

InitBuild ==
  /\ sourceTree \in BuildTrees
  /\ joomlaIndex = NoIndex
  /\ response = NoResponse
  /\ SchemaUnloaded(EmptySqlDir)
  /\ Serving(Undefined)
  /\ LspIdle

NextBuild == SyncStep

SpecBuild == InitBuild /\ [][NextBuild]_vars

(***************************************************************************)
(* Properties of the class lookup                                          *)
(***************************************************************************)
Looked == response.tool = "joomla_lookup_class" /\ ~response.isError

LookupTerm == toLowerCase(response.input.className)

Declarations == joomlaIndex.classes

\* Positions of the declarations whose FQN equals the query, ignoring case
FqnHits ==
  {k \in 1..Len(Declarations) : toLowerCase(Declarations[k].fqn) = LookupTerm}

\* Positions of the declarations whose simple name equals the query
NameHits ==
  {k \in 1..Len(Declarations) : toLowerCase(Declarations[k].name) = LookupTerm}

\* Positions of the declarations whose simple name contains the query
NameSubstringHits ==
  {k \in 1..Len(Declarations) :
     includes(toLowerCase(Declarations[k].name), LookupTerm)}

\* Positions of the declarations whose simple name or FQN contains the query
SubstringHits ==
  {k \in 1..Len(Declarations) :
     \/ includes(toLowerCase(Declarations[k].name), LookupTerm)
     \/ includes(toLowerCase(Declarations[k].fqn), LookupTerm)}

Selected(k) ==
  /\ response.result.found
  /\ response.result.class = Some(Declarations[k])

IsAmbiguous ==
  /\ ~response.result.found
  /\ response.result.class = Undefined
  /\ response.result.message.template = MsgMultiple
  /\ response.result.suggestions # Undefined

IsNotFound ==
  /\ ~response.result.found
  /\ response.result.class = Undefined
  /\ response.result.message.template = MsgNotFound

\* The edit distance by its defining recurrence over prefixes
EditDistance(a, b) ==
  LET d[i \in 0..Len(a), j \in 0..Len(b)] ==
        IF i = 0 THEN j
        ELSE IF j = 0 THEN i
        ELSE Min(Min(d[i - 1, j] + 1, d[i, j - 1] + 1),
                 d[i - 1, j - 1] + (IF a[i] = b[j] THEN 0 ELSE 1))
  IN  d[Len(a), Len(b)]

\* Positions of the declarations whose simple name is within distance 3
NearHits ==
  {k \in 1..Len(Declarations) :
     EditDistance(toLowerCase(Declarations[k].name), LookupTerm) <= MaxEditDistance}

\* C1: a query equal, ignoring case, to exactly one declaration's FQN selects
\* that declaration; otherwise a query equal to exactly one declaration's
\* simple name selects that one, whatever else matches as a substring.
C1_ExactMatchPrecedence ==
  Looked =>
    /\ Cardinality(FqnHits) = 1 => \A k \in FqnHits : Selected(k)
    /\ (Cardinality(FqnHits) # 1 /\ Cardinality(NameHits) = 1)
         => \A k \in NameHits : Selected(k)

\* Scenario B: one exact simple-name match, no FQN match, and a further
\* declaration that matches as a substring
C1_Witness ==
  /\ Looked
  /\ FqnHits = {}
  /\ Cardinality(NameHits) = 1
  /\ Cardinality(SubstringHits) > 1
  /\ \A k \in NameHits : Selected(k)

\* C2: a declaration is selected at an exact step only when it is the only
\* match of that step; two or more exact matches give the ambiguous signal.
C2_TiesAreAmbiguous ==
  Looked =>
    /\ (response.result.found /\ FqnHits # {}) => Cardinality(FqnHits) = 1
    /\ (response.result.found /\ FqnHits = {} /\ NameHits # {})
         => Cardinality(NameHits) = 1
    /\ (\/ Cardinality(FqnHits) >= 2
        \/ (FqnHits = {} /\ Cardinality(NameHits) >= 2)) => IsAmbiguous

\* C3 as stated: with N > 1 simple names containing the query and no exact
\* match, the result is ambiguous and lists min(N, 10) candidates.
C3_ListsNameMatches ==
  (Looked /\ FqnHits = {} /\ NameHits = {} /\ Cardinality(NameSubstringHits) > 1)
    => /\ IsAmbiguous
       /\ Len(response.result.suggestions[1])
            = Min(Cardinality(NameSubstringHits), MaxPartialSuggestions)

\* C3 amended: with no exact match and M > 1 declarations whose simple name
\* or FQN contains the query, the result is ambiguous, selects nothing, and
\* lists the FQNs of the first min(M, 10) of them.
C3_AmbiguityCapped ==
  (Looked /\ FqnHits = {} /\ NameHits = {} /\ Cardinality(SubstringHits) > 1)
    => /\ IsAmbiguous
       /\ Len(response.result.suggestions[1])
            = Min(Cardinality(SubstringHits), MaxPartialSuggestions)
       /\ \A n \in 1..Len(response.result.suggestions[1]) :
            \E k \in SubstringHits :
              /\ Declarations[k].fqn = response.result.suggestions[1][n]
              /\ Cardinality({m \in SubstringHits : m < k}) = n - 1

\* More than ten substring matches, ten of them listed
C3_Witness ==
  /\ Looked
  /\ FqnHits = {} /\ NameHits = {}
  /\ Cardinality(NameSubstringHits) > MaxPartialSuggestions
  /\ IsAmbiguous
  /\ Len(response.result.suggestions[1]) = MaxPartialSuggestions

\* C4: the result tells the four outcomes apart.  A found result carries the
\* class; an ambiguous one is told from not-found by its message and arises
\* from several substring matches; a not-found one arises from none, and has
\* suggestions exactly when a declaration is within the edit distance.
C4_OutcomesDistinguished ==
  Looked =>
    /\ response.result.found =>
         /\ response.result.class # Undefined
         /\ SubstringHits # {}
    /\ ~response.result.found => (IsAmbiguous \/ IsNotFound)
    /\ IsAmbiguous => Cardinality(SubstringHits) > 1
    /\ IsNotFound =>
         /\ SubstringHits = {}
         /\ (response.result.suggestions # Undefined) <=> (NearHits # {})
    /\ SubstringHits = {} => IsNotFound
    /\ (FqnHits = {} /\ NameHits = {} /\ Cardinality(SubstringHits) > 1)
         => IsAmbiguous

\* An ambiguous result with the same number of suggestions a not-found result
\* could carry
C4_Witness ==
  /\ Looked
  /\ IsAmbiguous
  /\ Len(response.result.suggestions[1]) <= MaxFuzzySuggestions
  /\ NearHits # {}

\* C5: with no exact and no substring match the result is not-found; it has
\* at most 5 suggestions, each the FQN of a declaration whose simple name is
\* within edit distance 3 of the query, and none exactly when no declaration
\* is that near.
C5_FuzzySuggestions ==
  (Looked /\ SubstringHits = {}) =>
    /\ IsNotFound
    /\ (response.result.suggestions = Undefined) <=> (NearHits = {})
    /\ response.result.suggestions # Undefined =>
         /\ Len(response.result.suggestions[1]) <= MaxFuzzySuggestions
         /\ \A n \in 1..Len(response.result.suggestions[1]) :
              \E k \in NearHits :
                Declarations[k].fqn = response.result.suggestions[1][n]

\* More than five declarations within the distance, five suggested
C5_Witness ==
  /\ Looked
  /\ SubstringHits = {}
  /\ Cardinality(NearHits) > MaxFuzzySuggestions
  /\ response.result.suggestions # Undefined
  /\ Len(response.result.suggestions[1]) = MaxFuzzySuggestions

(***************************************************************************)
(* Properties of the search                                                *)
(***************************************************************************)
Searched == response.tool = "joomla_search" /\ ~response.isError

SearchTerm == toLowerCase(response.input.query)

SearchType ==
  IF response.input.type = Undefined THEN "all" ELSE response.input.type[1]

RequestedLimit ==
  IF response.input.limit = Undefined
  THEN DefaultSearchLimit
  ELSE response.input.limit[1]

Hit(text) == includes(toLowerCase(text), SearchTerm)

OptionalHit(text) == Truthy(text) /\ Hit(text[1])

\* The places of the index that match: <<declaration, kind, member>>
MatchingPlaces ==
  LET D == Declarations
  IN  {<<k, "class", 0>> : k \in {k \in 1..Len(D) :
          /\ SearchType \in {"all", "class"}
          /\ (Hit(D[k].name) \/ Hit(D[k].fqn) \/ OptionalHit(D[k].docblock))}}
      \cup UNION {{<<k, "method", m>> : m \in {m \in 1..Len(D[k].methods) :
          /\ SearchType \in {"all", "method"}
          /\ (Hit(D[k].methods[m].name) \/ OptionalHit(D[k].methods[m].docblock))}}
            : k \in 1..Len(D)}
      \cup UNION {{<<k, "constant", m>> : m \in {m \in 1..Len(D[k].constants) :
          /\ SearchType \in {"all", "constant"}
          /\ Hit(D[k].constants[m].name)}} : k \in 1..Len(D)}
      \cup UNION {{<<k, "property", m>> : m \in {m \in 1..Len(D[k].properties) :
          /\ SearchType \in {"all", "property"}
          /\ Hit(D[k].properties[m].name)}} : k \in 1..Len(D)}

MatchCount == Cardinality(MatchingPlaces)

IsExact(row) == toLowerCase(row.name) = SearchTerm

IsPrefix(row) == startsWith(toLowerCase(row.name), SearchTerm)

\* The matches in scan order
Scanned == scanRows(Declarations, SearchTerm, SearchType)

\* Row a stands in an earlier class than row b, or in the same class and
\* is shorter
Outranks(a, b) ==
  \/ IsExact(a) /\ ~IsExact(b)
  \/ (IsExact(a) <=> IsExact(b)) /\ IsPrefix(a) /\ ~IsPrefix(b)
  \/ /\ IsExact(a) <=> IsExact(b)
     /\ IsPrefix(a) <=> IsPrefix(b)
     /\ Len(a.name) < Len(b.name)

\* The place of the k-th scanned row in the order of the claim
PlaceOf(scanned, k) ==
  1 + Cardinality({m \in 1..Len(scanned) :
        \/ Outranks(scanned[m], scanned[k])
        \/ (~Outranks(scanned[k], scanned[m]) /\ m < k)})

Listed == response.tool = "joomla_list_events" /\ ~response.isError

Events == joomlaIndex.eventMap

\* The event at place k passes the filters of the request
Passes(k) ==
  LET e  == Events[k]
      ns == response.input.namespace
      f  == response.input.filter
  IN  /\ Truthy(ns) => includes(toLowerCase(e.class), toLowerCase(ns[1]))
      /\ Truthy(f) =>
           \/ includes(toLowerCase(e.name), toLowerCase(f[1]))
           \/ includes(toLowerCase(e.class), toLowerCase(f[1]))
           \/ /\ Truthy(e.description)
              /\ includes(toLowerCase(e.description[1]), toLowerCase(f[1]))

Passing == {k \in 1..Len(Events) : Passes(k)}

\* The limit of the request clamped into [1, 100], 30 when absent
ClampedLimit ==
  LET limit == IF response.input.limit = Undefined
               THEN DefaultEventLimit ELSE response.input.limit[1]
  IN  IF limit < MinEventLimit THEN MinEventLimit
      ELSE IF limit > MaxEventLimit THEN MaxEventLimit
      ELSE limit

Returned(k) == \E n \in 1..Len(response.result.events) :
                 response.result.events[n] = Events[k]

\* C8 as stated: every event that passes the filters is returned, total is
\* the size of the eventMap and filtered the number of events that pass.
C8_AllPassingReturned ==
  Listed =>
    LET passing == Passing
    IN  /\ \A k \in passing : Returned(k)
        /\ Len(response.result.events) = Cardinality(passing)
        /\ response.result.total = Len(Events)
        /\ response.result.filtered = Cardinality(passing)

\* C8 amended: the events returned are the first min(filtered, E) events that
\* pass the filters, in eventMap order, E being the clamped limit; total is
\* the size of the eventMap and filtered the number of events that pass.
C8_PassingUpToLimit ==
  Listed =>
    LET passing == Passing
        events  == response.result.events
    IN  /\ response.result.total = Len(Events)
        /\ response.result.filtered = Cardinality(passing)
        /\ \A k \in passing :
             LET place == Cardinality({m \in passing : m <= k})
             IN  IF place <= ClampedLimit
                 THEN place <= Len(events) /\ events[place] = Events[k]
                 ELSE place > Len(events)
        /\ Len(events) <= Cardinality(passing)

\* A filter that an event passes by its description only, and one that fails
C8_Witness ==
  /\ Listed
  /\ Truthy(response.input.filter)
  /\ \E k \in Passing :
       /\ Returned(k)
       /\ ~includes(toLowerCase(Events[k].class), toLowerCase(response.input.filter[1]))
  /\ Cardinality(Passing) < Len(Events)
  /\ Len(response.result.events) = Cardinality(Passing)

\* C9: min(filtered, E) events are returned, E the limit clamped into
\* [1, 100] (default 30); filtered counts the events before the cut.
C9_LimitClamped ==
  Listed =>
    LET passing == Passing
    IN  /\ Len(response.result.events) = Min(Cardinality(passing), ClampedLimit)
        /\ response.result.filtered = Cardinality(passing)
        /\ (response.input.limit # Undefined /\ response.input.limit[1] <= 0
            /\ passing # {}) => Len(response.result.events) = 1
        /\ Len(response.result.events) <= MaxEventLimit

\* A limit above 100 with more than 100 events passing: 100 returned
C9_Witness ==
  /\ Listed
  /\ response.input.limit # Undefined
  /\ response.input.limit[1] > MaxEventLimit
  /\ Cardinality(Passing) > MaxEventLimit
  /\ Len(response.result.events) = MaxEventLimit
  /\ response.result.filtered = Cardinality(Passing)

\* Event is a backslash-separated segment of the namespace, at any place
HasEventSegment(namespace) ==
  \E i \in 1..Len(namespace) :
    /\ i + Len(EventStr) - 1 <= Len(namespace)
    /\ SubSeq(namespace, i, i + Len(EventStr) - 1) = EventStr
    /\ (i = 1 \/ namespace[i - 1] = "\\")
    /\ (i + Len(EventStr) - 1 = Len(namespace) \/ namespace[i + Len(EventStr)] = "\\")

\* Event is a segment of the namespace other than its first
HasLaterEventSegment(namespace) ==
  \E i \in 2..Len(namespace) :
    /\ i + Len(EventStr) - 1 <= Len(namespace)
    /\ SubSeq(namespace, i, i + Len(EventStr) - 1) = EventStr
    /\ namespace[i - 1] = "\\"
    /\ (i + Len(EventStr) - 1 = Len(namespace) \/ namespace[i + Len(EventStr)] = "\\")

LooksLikeEvent(cls) ==
  /\ cls.name \notin EVENT_EXCLUSIONS
  /\ \/ endsWith(cls.name, EventStr)
     \/ /\ cls.extends # Undefined
        /\ (endsWith(cls.extends[1], EventStr)
            \/ includes(cls.extends[1], AbstractEventStr))

IsEventKey(fqn) == \E n \in 1..Len(Events) : Events[n].class = fqn

\* C10 as stated: an FQN is a key of eventMap exactly when a declaration with
\* that FQN has Event as a namespace segment at any position, is not
\* excluded, and is an event by its name or its parent.
C10_AnyEventSegment ==
  joomlaIndex.built =>
    \A k \in 1..Len(Declarations) :
      IsEventKey(Declarations[k].fqn) <=>
        \E j \in 1..Len(Declarations) :
          /\ Declarations[j].fqn = Declarations[k].fqn
          /\ HasEventSegment(Declarations[j].namespace)
          /\ LooksLikeEvent(Declarations[j])

\* C10 amended: the Event segment must follow a backslash, so it is any
\* segment of the namespace but the first; every key is a declaration's FQN.
C10_EventMapMembership ==
  joomlaIndex.built =>
    /\ \A k \in 1..Len(Declarations) :
         IsEventKey(Declarations[k].fqn) <=>
           \E j \in 1..Len(Declarations) :
             /\ Declarations[j].fqn = Declarations[k].fqn
             /\ HasLaterEventSegment(Declarations[j].namespace)
             /\ LooksLikeEvent(Declarations[j])
    /\ \A n \in 1..Len(Events) :
         \E k \in 1..Len(Declarations) : Declarations[k].fqn = Events[n].class

\* An index with an event in a namespace that ends with \Event, and a
\* declaration named like an event whose namespace holds Event only inside
\* a longer segment
C10_Witness ==
  /\ joomlaIndex.built
  /\ \E k \in 1..Len(Declarations) :
       /\ endsWith(Declarations[k].namespace, Backslash \o EventStr)
       /\ IsEventKey(Declarations[k].fqn)
  /\ \E k \in 1..Len(Declarations) :
       /\ includes(Declarations[k].namespace, EventStr)
       /\ ~HasEventSegment(Declarations[k].namespace)
       /\ LooksLikeEvent(Declarations[k])
       /\ ~IsEventKey(Declarations[k].fqn)

\* C11: a declaration whose name is in the exclusion set is never a key of
\* the eventMap, whatever its namespace, its parent or the end of its name.
C11_ExcludedNamesAbsent ==
  joomlaIndex.built =>
    \A k \in 1..Len(Declarations) :
      Declarations[k].name \in EVENT_EXCLUSIONS =>
        ~IsEventKey(Declarations[k].fqn)

\* An excluded name in a namespace ending with \Event, with a parent that
\* would qualify it, beside a declaration that is in the eventMap
C11_Witness ==
  /\ joomlaIndex.built
  /\ Len(Events) > 0
  /\ \E k \in 1..Len(Declarations) :
       /\ Declarations[k].name \in EVENT_EXCLUSIONS
       /\ HasLaterEventSegment(Declarations[k].namespace)
       /\ Declarations[k].extends # Undefined
       /\ includes(Declarations[k].extends[1], AbstractEventStr)
       /\ ~IsEventKey(Declarations[k].fqn)

\* The declaration an entry of the eventMap is derived from: the last
\* qualifying declaration with the entry's FQN
SourceOfEvent(n) ==
  LET from == {k \in 1..Len(Declarations) :
                 /\ Declarations[k].fqn = Events[n].class
                 /\ HasLaterEventSegment(Declarations[k].namespace)
                 /\ LooksLikeEvent(Declarations[k])}
  IN  Declarations[CHOOSE k \in from : \A j \in from : j <= k]

\* "<type> $<name>" or "$<name>", then " = <default>" when there is one
Rendered(p) ==
  (IF p.type = Undefined THEN << >> ELSE p.type[1] \o <<" ">>)
    \o <<"$">> \o p.name
    \o (IF p.defaultValue = Undefined THEN << >>
        ELSE <<" ", "=", " ">> \o p.defaultValue[1])

\* The parameters of the constructor of a declaration, rendered in order
ConstructorParameters(cls) ==
  LET ctors == {m \in 1..Len(cls.methods) : cls.methods[m].name = ConstructStr}
  IN  IF ctors = {} THEN << >>
      ELSE LET ps == cls.methods[CHOOSE m \in ctors : \A j \in ctors : m <= j].parameters
           IN  [i \in 1..Len(ps) |-> Rendered(ps[i])]

StringHost == <<"s","t","r","i","n","g"," ","$","h","o","s","t">>

\* C12: the parameters of every entry of the eventMap are the rendered
\* parameters of the constructor of its declaration, the empty list without
\* a constructor; PingEvent(string $host) gives ["string $host"].
C12_EventParameters ==
  joomlaIndex.built =>
    \A n \in 1..Len(Events) :
      /\ Events[n].parameters = ConstructorParameters(SourceOfEvent(n))
      /\ SourceOfEvent(n) = E_Ping => Events[n].parameters = <<StringHost>>

\* The eventMap holds PingEvent with ["string $host"] and an event whose
\* constructor has an untyped parameter and parameters with defaults
C12_Witness ==
  /\ joomlaIndex.built
  /\ \E n \in 1..Len(Events) :
       /\ Events[n].name = Str_PingEvent
       /\ Events[n].parameters = <<StringHost>>
  /\ \E n \in 1..Len(Events) :
       /\ Len(Events[n].parameters) = 3
       /\ Events[n].parameters[1] = <<"$","c","o","u","n","t"," ","=", " ","3">>
       /\ Events[n].parameters[2] = <<"?","i","n","t"," ","$","d","e","l","a","y">>

(***************************************************************************)
(* Properties of the index build                                           *)
(***************************************************************************)
Failing(file) == ~file.readable \/ ~file.parses

\* The declarations of the files that are read and parsed, file after file
RECURSIVE DeclarationsOfSound(_)
DeclarationsOfSound(tree) ==
  IF tree = << >> THEN << >>
  ELSE (IF Failing(Head(tree)) THEN << >> ELSE Head(tree).nodes)
         \o DeclarationsOfSound(Tail(tree))

\* C20: whichever files fail, a build after a successful sync completes and
\* its declarations are those of the other files, in discovery order.
C20_FailureIsolation ==
  (response.tool = "joomla_sync" /\ ~response.isError) =>
    /\ joomlaIndex.built
    /\ joomlaIndex.classes = DeclarationsOfSound(sourceTree)

\* A build over an unreadable file, a file whose parse fails after
\* declarations were collected, and a sound file after them
C20_Witness ==
  /\ response.tool = "joomla_sync" /\ ~response.isError
  /\ \E i, j, k \in 1..Len(sourceTree) :
       /\ i < k /\ j < k
       /\ ~sourceTree[i].readable
       /\ ~sourceTree[j].parses /\ sourceTree[j].nodes # << >>
       /\ ~Failing(sourceTree[k]) /\ sourceTree[k].nodes # << >>
  /\ joomlaIndex.classes # << >>

(***************************************************************************)
(* Properties of the derived maps                                          *)
(***************************************************************************)
Tables == schemaIndex.tables

TableEntries == schemaIndex.tableMap.entries

\* The positions in the tables list of the tables with a shortName
TablesNamed(shortName) == {k \in 1..Len(Tables) : Tables[k].shortName = shortName}

NamesStripped ==
  {Tables[k].name : k \in 1..Len(Tables)}
    \cup (IF response.tool = "joomla_schema" /\ Truthy(response.input.tableName)
          THEN {response.input.tableName[1]} ELSE {})

\* C14: stripping the placeholder from a name twice gives what
\* stripping it once gives, for the shortName of every parsed table and the
\* normalised name of every request.
C14_StripIdempotent ==
  schemaIndex.loaded =>
    /\ \A k \in 1..Len(Tables) : stripPrefix(Tables[k].shortName) = Tables[k].shortName
    /\ \A name \in NamesStripped : stripPrefix(stripPrefix(name)) = stripPrefix(name)

\* Every entry of the directory is a .sql file that is read
SoundDir ==
  /\ sqlDir.readable
  /\ \A k \in 1..Len(sqlDir.entries) :
       sqlDir.entries[k].isSql /\ sqlDir.entries[k].readable

\* The statements a file was written from
StatementsOf(content) == CHOOSE statements \in SqlFileStatements : fileText(statements) = content

\* The statements of the directory, file after file
SourceStatements ==
  flatten([k \in 1..Len(sqlDir.entries) |-> StatementsOf(sqlDir.entries[k].content)])

ColumnsDeclared(st) == SelectSeq(st.definitions, LAMBDA d : d.kind = "column")

KeysDeclared(st) == SelectSeq(st.definitions, LAMBDA d : d.kind = "key")

\* A parsed column carries the name, type and attributes of its definition
ColumnAsDeclared(column, d) ==
  /\ column.name = d.name
  /\ column.type = d.type
  /\ column.nullable = ~d.notNull
  /\ column.defaultValue = d.default
  /\ column.autoIncrement = d.autoIncrement

ColumnNames(d) == [n \in 1..Len(d.columns) |-> d.columns[n].name]

\* A parsed index carries the type of its definition and the bare names of
\* its columns
IndexAsDeclared(index, d) ==
  /\ index.type = d.type
  /\ index.name = d.name
  /\ index.columns = ColumnNames(d)

\* A parsed table holds every column and every key of its statement, in
\* source order, and the engine and charset of the suffix
TableAsDeclared(table, st) ==
  /\ table.name = st.name
  /\ Len(table.columns) = Len(ColumnsDeclared(st))
  /\ \A n \in 1..Len(table.columns) :
       ColumnAsDeclared(table.columns[n], ColumnsDeclared(st)[n])
  /\ Len(table.indexes) = Len(KeysDeclared(st))
  /\ \A n \in 1..Len(table.indexes) :
       IndexAsDeclared(table.indexes[n], KeysDeclared(st)[n])
  /\ table.engine = st.engine
  /\ table.charset = st.charset

\* C15: parseSql turns every well-formed CREATE TABLE statement into one
\* TableSchema holding each column and each key of the body in source order,
\* every column with its own NOT NULL, DEFAULT and AUTO_INCREMENT, and the
\* engine and charset of the suffix; for Scenario A, 2 columns, the PRIMARY
\* index on ["id"], InnoDB and utf8mb4.
C15_ScenarioAParsed ==
  (schemaIndex.loaded /\ SoundDir) =>
    /\ Len(Tables) = Len(SourceStatements)
    /\ \A k \in 1..Len(Tables) : TableAsDeclared(Tables[k], SourceStatements[k])
    /\ \A k \in 1..Len(Tables) :
         SourceStatements[k] = St_ScenarioA =>
           /\ Len(Tables[k].columns) = 2
           /\ Tables[k].columns[1].autoIncrement /\ ~Tables[k].columns[1].nullable
           /\ ~Tables[k].columns[2].nullable
           /\ Tables[k].columns[2].defaultValue = Some(<<"'", "'">>)
           /\ Len(Tables[k].indexes) = 1
           /\ Tables[k].indexes[1].type = "PRIMARY"
           /\ Tables[k].indexes[1].columns = <<Str_id>>
           /\ Tables[k].engine = Some(Str_InnoDB)
           /\ Tables[k].charset = Some(<<"u","t","f","8","m","b","4">>)

\* C16: every column parsed from a CREATE TABLE statement is nullable exactly
\* when its definition has no NOT NULL, wherever it stands in the body and
\* whatever its type.
C16_Nullability ==
  (schemaIndex.loaded /\ SoundDir /\ Len(Tables) = Len(SourceStatements)) =>
    \A k \in 1..Len(Tables) :
      \A n \in 1..Len(Tables[k].columns) :
        \A m \in 1..Len(ColumnsDeclared(SourceStatements[k])) :
          ColumnsDeclared(SourceStatements[k])[m].name = Tables[k].columns[n].name =>
            Tables[k].columns[n].nullable = ~ColumnsDeclared(SourceStatements[k])[m].notNull

\* The key definitions of the directory that give a size to a column
SizedKeys ==
  {<<k, n>> \in (1..Len(SourceStatements)) \X (1..3) :
     /\ n <= Len(KeysDeclared(SourceStatements[k]))
     /\ \E c \in 1..Len(KeysDeclared(SourceStatements[k])[n].columns) :
          KeysDeclared(SourceStatements[k])[n].columns[c].size # Undefined}

\* C17: a key definition whose column list carries a size, such as
\* KEY idx_alias (alias(191)), yields an index whose columns are the bare
\* column names in order, from parseIndex and in the parsed table.
C17_SizeStripped ==
  (schemaIndex.loaded /\ SoundDir /\ Len(Tables) = Len(SourceStatements)) =>
    \A at \in SizedKeys :
      /\ parseIndex(definitionText(KeysDeclared(SourceStatements[at[1]])[at[2]],
                                   SourceStatements[at[1]].quoted))
           = Some([name    |-> KeysDeclared(SourceStatements[at[1]])[at[2]].name,
                   type    |-> KeysDeclared(SourceStatements[at[1]])[at[2]].type,
                   columns |-> ColumnNames(KeysDeclared(SourceStatements[at[1]])[at[2]])])
      /\ at[2] <= Len(Tables[at[1]].indexes)
      /\ Tables[at[1]].indexes[at[2]].columns
           = ColumnNames(KeysDeclared(SourceStatements[at[1]])[at[2]])

\* The body parseSql hands to splitTableBody for the text of a statement
BodyOf(st) == execCreateTable(statementText(st), 1)[1].body

\* A column type of the statement holds a comma between parentheses
EmbeddedCommas(st) ==
  \E n \in 1..Len(st.definitions) :
    st.definitions[n].kind = "column" /\ includes(st.definitions[n].type, <<",">>)

\* C18: the body of a CREATE TABLE statement with a type such as
\* ENUM('a','b','c') is split into as many parts as it has definitions at
\* depth 0; commas inside parentheses add no part and no definition is lost.
C18_BodySplit ==
  (schemaIndex.loaded /\ SoundDir /\ Len(Tables) = Len(SourceStatements)) =>
    \A k \in 1..Len(Tables) :
      EmbeddedCommas(SourceStatements[k]) =>
        /\ Len(splitTableBody(BodyOf(SourceStatements[k])))
             = Len(SourceStatements[k].definitions)
        /\ Len(Tables[k].columns) + Len(Tables[k].indexes)
             = Len(SourceStatements[k].definitions)

(***************************************************************************)
(* Properties of the schema lookup                                         *)
(***************************************************************************)
\* The tables a request matches by substring: its normalised name in their
\* shortName, or the name as requested in their name
SubstringMatches(tableName) ==
  SelectSeq(Tables, LAMBDA t : \/ includes(t.shortName, stripPrefix(tableName))
                               \/ includes(t.name, tableName))

\* C19: a request by tableName returns the table whose shortName is the
\* requested name without a leading #__, the one tableMap holds, even when
\* other tables contain the name; without such a table, the one table that
\* matches by substring, the list of those that match, or not-found.  The
\* schema is the one parseDirectory produced or the one reloaded from the
\* persisted JSON.
C19_ExactThenSubstring ==
  (/\ response.tool = "joomla_schema" /\ ~response.isError
   /\ ~response.input.listAll /\ Truthy(response.input.tableName)) =>
    LET tableName == response.input.tableName[1]
        exact     == TablesNamed(stripPrefix(tableName))
        matches   == SubstringMatches(tableName)
    IN  IF exact # {}
        THEN response.result
               = formatTableSchema(Tables[CHOOSE k \in exact : \A j \in exact : j <= k])
        ELSE IF Len(matches) = 1
        THEN response.result = formatTableSchema(matches[1])
        ELSE IF Len(matches) > 1
        THEN /\ response.result.kind = "multiple"
             /\ response.result.names = [n \in 1..Len(matches) |-> matches[n].name]
        ELSE response.result.kind = "notFound"

(***************************************************************************)
(* registry.ts: the joomla_sync handler, await by await                    *)
(***************************************************************************)
SyncTask(pc, classes, next, idx) ==
  [pc |-> pc, classes |-> classes, next |-> next, idx |-> idx]

\* A joomla_sync call arrives: ctx.sync.sync() is awaited
SyncCall ==
  /\ server = "running"
  /\ syncTask = NoSyncTask
  /\ syncTask' = SyncTask("sync", << >>, 1, NoIndex)
  /\ UNCHANGED <<sourceTree, joomlaIndex, response, sqlDir, schemaCache,
                 schemaIndex, checkout, indexFile, server, lspVars>>

\* sync() resolves.  A success leaves the fetched tree in the clone and
\* buildIndex starts with an empty list; a failure ends the call with isError
SyncFetched(success, tree) ==
  /\ syncTask.pc = "sync"
  /\ IF success
     THEN /\ sourceTree' = tree
          /\ checkout' = TRUE
          /\ syncTask' = SyncTask("build", << >>, 1, NoIndex)
          /\ UNCHANGED response
     ELSE /\ syncTask' = NoSyncTask
          /\ response' = Response("joomla_sync", << >>, TRUE, << >>)
          /\ UNCHANGED <<sourceTree, checkout>>
  /\ UNCHANGED <<joomlaIndex, sqlDir, schemaCache, schemaIndex, indexFile,
                 server, lspVars>>

\* As SyncParseFile handing the declarations collected so far to setIndex
SyncParseFilePublishing ==
  /\ syncTask.pc = "build"
  /\ syncTask.next <= Len(sourceTree)
  /\ syncTask' = SyncTask("build",
                          syncTask.classes \o parseFile(sourceTree[syncTask.next]),
                          syncTask.next + 1, NoIndex)
  /\ joomlaIndex' = indexOfClasses(syncTask.classes \o parseFile(sourceTree[syncTask.next]))
  /\ UNCHANGED <<sourceTree, response, sqlDir, schemaCache, schemaIndex,
                 checkout, indexFile, server, lspVars>>

\* buildIndex: await this.parser.parseFile(file); classes.push(...parsed)
SyncParseFile ==
  /\ syncTask.pc = "build"
  /\ syncTask.next <= Len(sourceTree)
  /\ syncTask' = SyncTask("build",
                          syncTask.classes \o parseFile(sourceTree[syncTask.next]),
                          syncTask.next + 1, NoIndex)
  /\ UNCHANGED <<sourceTree, joomlaIndex, response, sqlDir, schemaCache,
                 schemaIndex, checkout, indexFile, server, lspVars>>

\* buildIndex returns the index of the whole list; saveIndex is awaited
SyncBuilt ==
  /\ syncTask.pc = "build"
  /\ syncTask.next > Len(sourceTree)
  /\ syncTask' = SyncTask("save", syncTask.classes, syncTask.next,
                          indexOfClasses(syncTask.classes))
  /\ UNCHANGED <<sourceTree, joomlaIndex, response, sqlDir, schemaCache,
                 schemaIndex, checkout, indexFile, server, lspVars>>

\* The artifact a failed write leaves: the file as it was, or a text that
\* JSON.parse rejects
FailedWrites == {"untouched", "truncated"}

\* saveIndex resolves and ctx.setIndex(idx) runs, or saveIndex rejects and
\* the handler throws
SyncSaved(written) ==
  /\ syncTask.pc = "save"
  /\ IF written = "saved"
     THEN /\ indexFile' = indexJson(syncTask.idx)
          /\ joomlaIndex' = syncTask.idx
          /\ response' = Response("joomla_sync", << >>, FALSE, << >>)
     ELSE /\ indexFile' = IF written = "truncated" THEN Artifact(FALSE, << >>)
                          ELSE indexFile
          /\ response' = Response("joomla_sync", << >>, TRUE, << >>)
          /\ UNCHANGED joomlaIndex
  /\ syncTask' = NoSyncTask
  /\ UNCHANGED <<sourceTree, sqlDir, schemaCache, schemaIndex, checkout,
                 server, lspVars>>

(***************************************************************************)
(* Specification of the index swap                                         *)
(***************************************************************************)
\* Files of every tree a sync fetches
SwapTreeLen == 2

SwapFiles == { <<L_Wi_A>>, <<L_WiF_A>>, <<L_Wi_B>> }

SwapTrees == {Discovered(tree) : tree \in [1..SwapTreeLen -> SwapFiles]}

SwapInputs == [className : {Str_Wi, <<"W","i","F">>}, methodName : {Undefined}]

\* The server runs with no index or with the index of the tree of its clone
InitSwap ==
  /\ sourceTree \in SwapTrees
  /\ joomlaIndex \in {NoIndex, buildIndex(sourceTree)}
  /\ response = NoResponse
  /\ SchemaUnloaded(EmptySqlDir)
  /\ indexFile = (IF joomlaIndex = NoIndex THEN Undefined ELSE indexJson(joomlaIndex))
  /\ checkout = TRUE
  /\ syncTask = NoSyncTask
  /\ server = "running"
  /\ LspIdle

SyncFetchedStep ==
  \E success \in BOOLEAN, tree \in SwapTrees : SyncFetched(success, tree)

SyncSavedStep == \E written \in {"saved"} \cup FailedWrites : SyncSaved(written)

SwapQueryStep == \E input \in SwapInputs : LookupClassTool(input)

NextSwap ==
  \/ SyncCall
  \/ SyncFetchedStep
  \/ SyncParseFile
  \/ SyncBuilt
  \/ SyncSavedStep
  \/ SwapQueryStep

SpecSwap == InitSwap /\ [][NextSwap]_vars

(***************************************************************************)
(* Properties of the index swap                                            *)
(***************************************************************************)
\* The index is the index of a whole tree
CompleteIndex(index) == \E tree \in SwapTrees : index = buildIndex(tree)

\* C21: the shared index is no index or the index of a whole tree at every
\* moment, so a query during a sync reads the previous index or the new one;
\* the reference changes only in the step that ends a call whose build and
\* save finished, to the index of the whole fetched tree, and a failed sync
\* or save leaves it as it was.
C21_SnapshotSwap ==
  /\ [](joomlaIndex = NoIndex \/ CompleteIndex(joomlaIndex))
  /\ [][joomlaIndex' # joomlaIndex =>
          /\ syncTask.pc = "save" /\ syncTask'.pc = "idle"
          /\ ~response'.isError
          /\ joomlaIndex' = buildIndex(sourceTree)]_vars
  /\ [][(response'.tool = "joomla_sync" /\ response'.isError) =>
          joomlaIndex' = joomlaIndex]_vars

\* A lookup answered from the previous index while the build of another tree
\* has collected the declarations of its first file
C21_Witness ==
  /\ syncTask.pc = "build"
  /\ syncTask.next = 2
  /\ syncTask.classes # << >>
  /\ joomlaIndex.built
  /\ joomlaIndex # buildIndex(sourceTree)
  /\ response.tool = "joomla_lookup_class"
  /\ ~response.isError
  /\ response.result = lookupClass(joomlaIndex, response.input)

(***************************************************************************)
(* index.ts: loadOrBuildIndex and main                                     *)
(***************************************************************************)
\* loadIndex: the parsed content of the file, or null when the file is
\* missing or JSON.parse throws.  The index written by saveIndex reads back
\* with every field the tools read (members that are undefined are left out
\* of the text and read as undefined again)
loadIndex(artifact) ==
  IF artifact = Undefined \/ ~artifact[1].parses THEN NoIndex ELSE artifact[1].value

\* JSON text of the value null
JsonNull == Artifact(TRUE, NoIndex)

\* JSON text of an object with no classes member
JsonEmptyObject == Artifact(TRUE, [built |-> TRUE])

\* existing.classes.length is read without a TypeError
hasClasses(existing) == "classes" \in DOMAIN existing

\* main: joomlaIndex = await loadOrBuildIndex(); schemaIndex = await
\* loadSchema(); then the server listens.  A rejection of main is logged
\* and the server never listens
Startup(written) ==
  /\ server = "starting"
  /\ syncTask = NoSyncTask
  /\ IF loadIndex(indexFile) # NoIndex
     THEN IF hasClasses(loadIndex(indexFile))
          THEN /\ joomlaIndex' = loadIndex(indexFile)
               /\ server' = "running"
               /\ SchemaLoaded
               /\ UNCHANGED indexFile
          ELSE /\ server' = "crashed"
               /\ UNCHANGED <<joomlaIndex, indexFile, schemaCache, schemaIndex>>
     ELSE /\ IF ~checkout
             THEN UNCHANGED <<joomlaIndex, indexFile>>
             ELSE IF written = "saved"
             THEN /\ joomlaIndex' = buildIndex(sourceTree)
                  /\ indexFile' = indexJson(buildIndex(sourceTree))
             ELSE /\ indexFile' = IF written = "truncated"
                                  THEN Artifact(FALSE, << >>) ELSE indexFile
                  /\ UNCHANGED joomlaIndex
          /\ server' = "running"
          /\ SchemaLoaded
  /\ UNCHANGED <<sourceTree, response, sqlDir, checkout, syncTask, lspVars>>

(***************************************************************************)
(* Specification of startup                                                *)
(***************************************************************************)
StartupTrees == {Discovered(tree) : tree \in SeqsUpTo({<<L_Wi_A>>, <<L_Wi_B>>}, MaxFiles)}

\* index.json before startup: missing, not JSON, null, an object that is
\* not an index, or the index some earlier run saved
StartupArtifacts ==
  {Undefined, Artifact(FALSE, << >>), JsonNull, JsonEmptyObject}
    \cup {indexJson(buildIndex(tree)) : tree \in StartupTrees}

StartupQueries == {Str_Wi, Str_B}

\* The process starts with or without a clone; without one there is no
\* source tree
InitStartup ==
  /\ checkout \in BOOLEAN
  /\ sourceTree \in (IF checkout THEN StartupTrees ELSE {<< >>})
  /\ joomlaIndex = NoIndex
  /\ response = NoResponse
  /\ SchemaUnloaded(EmptySqlDir)
  /\ indexFile \in StartupArtifacts
  /\ syncTask = NoSyncTask
  /\ server = "starting"
  /\ LspIdle

StartupStep == \E written \in {"saved"} \cup FailedWrites : Startup(written)

StartupLookupStep ==
  \E q \in StartupQueries :
      LookupClassTool([className |-> q, methodName |-> Undefined])

StartupSearchStep ==
  \E q \in StartupQueries : SearchTool([query |-> q, type |-> Undefined, limit |-> Undefined])

StartupEventsStep ==
  ListEventsTool([filter |-> Undefined, namespace |-> Undefined, limit |-> Undefined])

NextStartup ==
  \/ StartupStep
  \/ StartupLookupStep
  \/ StartupSearchStep
  \/ StartupEventsStep

SpecStartup == InitStartup /\ [][NextStartup]_vars

(***************************************************************************)
(* Properties of startup                                                   *)
(***************************************************************************)
\* The artifact is missing or is not the text of an index
MissingOrCorrupt(artifact) ==
  artifact = Undefined \/ ~artifact[1].parses \/ ~hasClasses(artifact[1].value)

IndexTools == {"joomla_lookup_class", "joomla_search", "joomla_list_events"}

\* C22: startup over a missing or corrupt index.json raises no error and
\* serves; it ends with the index of the source when there is a clone and
\* with no index only when there is none, and with no index every index
\* tool answers 'Index not built. Run joomla_sync first.'
C22_ReadFailure ==
  /\ [][(server = "starting" /\ MissingOrCorrupt(indexFile)) =>
          /\ server' = "running"
          /\ checkout => joomlaIndex' = buildIndex(sourceTree)
          /\ ~checkout => joomlaIndex' = NoIndex]_vars
  /\ []((joomlaIndex = NoIndex /\ response.tool \in IndexTools) =>
          (response.isError /\ response.result = IndexNotBuilt))

(***************************************************************************)
(* response-utils.ts: truncateResponse                                     *)
(***************************************************************************)
Newline == "\n"

\* '\n\n---\n*Response truncated. Use filters or parameters to narrow results.*'
TruncationNotice ==
  <<"\n", "\n", "-", "-", "-", "\n", "*", "R", "e", "s", "p", "o", "n",
    "s", "e", " ", "t", "r", "u", "n", "c", "a", "t", "e", "d", ".", " ",
    "U", "s", "e", " ", "f", "i", "l", "t", "e", "r", "s", " ", "o", "r",
    " ", "p", "a", "r", "a", "m", "e", "t", "e", "r", "s", " ", "t", "o",
    " ", "n", "a", "r", "r", "o", "w", " ", "r", "e", "s", "u", "l", "t",
    "s", ".", "*">>

\* text.lastIndexOf(ch, fromIndex): the greatest index (from 0) at or below
\* fromIndex that holds ch, or -1
lastIndexOf(text, ch, fromIndex) ==
  LET found == {i \in 0..(Len(text) - 1) : i <= fromIndex /\ text[i + 1] = ch}
  IN  IF found = {} THEN -1 ELSE CHOOSE i \in found : \A j \in found : j <= i

\* text.substring(0, end)
substringTo(text, end) ==
  SubSeq(text, 1, IF end > Len(text) THEN Len(text) ELSE end)

\* As truncateResponse cutting at a newline that is the first character too
truncateResponseAtFirstChar(text, maxChars) ==
  IF Len(text) <= maxChars THEN text
  ELSE (IF lastIndexOf(text, Newline, maxChars) >= 0
        THEN substringTo(text, lastIndexOf(text, Newline, maxChars))
        ELSE substringTo(text, maxChars)) \o TruncationNotice

truncateResponse(text, maxChars) ==
  IF Len(text) <= maxChars THEN text
  ELSE (IF lastIndexOf(text, Newline, maxChars) > 0
        THEN substringTo(text, lastIndexOf(text, Newline, maxChars))
        ELSE substringTo(text, maxChars)) \o TruncationNotice

\* A text handed to truncateResponse, and the text it returns
TruncateCall(input) ==
  /\ response = Response("render", input, FALSE, << >>)
  /\ response' = Response("truncateResponse", input, FALSE,
                          truncateResponse(input.text, input.maxChars))
  /\ UNCHANGED <<sourceTree, joomlaIndex, sqlDir, schemaCache, schemaIndex,
                 startupVars, lspVars>>

(***************************************************************************)
(* Specification of the truncation                                         *)
(***************************************************************************)
MaxTextLen == 5

MaxChars == 4

TruncateTexts == SeqsUpTo({"a", Newline}, MaxTextLen)

TruncateInputs == [text : TruncateTexts, maxChars : 0..MaxChars]

InitTruncate ==
  /\ sourceTree = << >>
  /\ joomlaIndex = NoIndex
  /\ response \in {Response("render", input, FALSE, << >>) : input \in TruncateInputs}
  /\ SchemaUnloaded(EmptySqlDir)
  /\ Serving(Undefined)
  /\ LspIdle

TruncateStep == \E input \in TruncateInputs : TruncateCall(input)

NextTruncate == TruncateStep

SpecTruncate == InitTruncate /\ [][NextTruncate]_vars

(***************************************************************************)
(* Properties of the truncation                                            *)
(***************************************************************************)
\* The positions 1..maxChars (from 0) of the text that hold a newline
NewlinesWithin(text, maxChars) ==
  {p \in 1..maxChars : p < Len(text) /\ text[p + 1] = Newline}

\* result is the first n characters of the text followed by the notice
CutAt(text, n, result) ==
  /\ n <= Len(text)
  /\ result = SubSeq(text, 1, n) \o TruncationNotice

\* C23: a text of at most maxChars characters is returned unchanged; a
\* longer one is returned as a prefix of at most maxChars characters
\* followed by the truncation notice, the prefix ending just before a
\* newline of the text whenever a position in 1..maxChars holds one, and
\* being the first maxChars characters otherwise.
C23_Truncate ==
  response.tool = "truncateResponse" =>
    LET text     == response.input.text
        maxChars == response.input.maxChars
        result   == response.result
    IN  IF Len(text) <= maxChars
        THEN result = text
        ELSE /\ \E n \in 0..maxChars : CutAt(text, n, result)
             /\ IF NewlinesWithin(text, maxChars) # {}
                THEN \E n \in 0..maxChars :
                        CutAt(text, n, result) /\ text[n + 1] = Newline
                ELSE CutAt(text, maxChars, result)

\* A text cut at its last newline within the limit, with an earlier
\* newline as its first character and more text after the cut
C23_Witness ==
  /\ response.tool = "truncateResponse"
  /\ response.input.text = <<Newline, "a", Newline, "a", "a">>
  /\ response.input.maxChars = 3
  /\ response.result = <<Newline, "a">> \o TruncationNotice

(***************************************************************************)
(* Specification of the first run                                          *)
(***************************************************************************)
\* installation/sql of the repository: files that declare tables
FirstRunDirs ==
  { SqlDir(TRUE, <<SoundSqlFile(<<St_Simple>>)>>),
    SqlDir(TRUE, <<SoundSqlFile(<<St_ContentShort>>), SoundSqlFile(<<St_Plain>>)>>) }

FirstRunSchemaInputs ==
  { SchemaInput(Undefined, Undefined, TRUE),
    SchemaInput(Some(<<"c","o","n","t","e","n","t">>), Undefined, FALSE) }

\* A fresh installation: no clone, no index.json, no schema.json.  sourceTree
\* and sqlDir are what the repository holds for the clone to fetch
InitFirstRun ==
  /\ sourceTree \in StartupTrees
  /\ joomlaIndex = NoIndex
  /\ response = NoResponse
  /\ \E dir \in FirstRunDirs : SchemaUnloaded(dir)
  /\ checkout = FALSE
  /\ indexFile = Undefined
  /\ syncTask = NoSyncTask
  /\ server = "starting"
  /\ LspIdle

FirstRunSchemaStep == \E input \in FirstRunSchemaInputs : SchemaTool(input)

NextFirstRun ==
  \/ StartupStep
  \/ SyncStep
  \/ FirstRunSchemaStep
  \/ StartupLookupStep

SpecFirstRun == InitFirstRun /\ [][NextFirstRun]_vars

(***************************************************************************)
(* Properties of the first run                                             *)
(***************************************************************************)
\* C25: once a joomla_sync call has succeeded (the clone exists), the class
\* index and the schema of the install SQL are both available: no later
\* joomla_schema call answers 'Schema not available. Run joomla_sync
\* first' and no later index query answers 'Index not built'.
C25_SyncBuildsBoth ==
  checkout =>
    /\ joomlaIndex # NoIndex
    /\ schemaIndex.loaded
    /\ response.tool = "joomla_schema" =>
         ~(response.isError /\ response.result = SchemaNotAvailable)
    /\ response.tool \in IndexTools =>
         ~(response.isError /\ response.result = IndexNotBuilt)

(***************************************************************************)
(* diagnostics-waiter.ts: DiagnosticsWaiter                                *)
(***************************************************************************)
NoDiagnostics == << >>

\* The call that the next waitForDiagnostics creates
nextCall == CHOOSE c \in CallIds :
              calls[c] = UnusedCall /\ \A d \in CallIds : d < c => calls[d] # UnusedCall

\* resolve(diags) of a pending promise; a settled promise ignores it
resolved(call, diags) ==
  IF call.state = "pending"
  THEN Call("resolved", call.uri, FALSE, diags, call.resolutions + 1)
  ELSE Call(call.state, call.uri, FALSE, call.result, call.resolutions + 1)

\* onDiagnosticsReceived: the diagnostics are stored, and the resolver
\* registered for the URI, if any, is removed and called; the resolver
\* clears the timer of its call
waiterReceived(uri, diags) ==
  [waiters |-> [waiter.waiters EXCEPT ![uri] = 0],
   store   |-> [waiter.store EXCEPT ![uri] = Some(diags)]]

callsReceived(uri, diags) ==
  IF waiter.waiters[uri] = 0 THEN calls
  ELSE [calls EXCEPT ![waiter.waiters[uri]] = resolved(@, diags)]

\* waitForDiagnostics: a timer is set and the resolver of the new promise
\* is registered for the URI, in place of any resolver registered before
callsWaiting(uri) ==
  [calls EXCEPT ![nextCall] = Call("pending", uri, TRUE, NoDiagnostics, 0)]

waiterWaiting(uri) ==
  [waiters |-> [waiter.waiters EXCEPT ![uri] = nextCall], store |-> waiter.store]

\* The timer callback of a call: the waiter of the URI is deleted, whichever
\* call registered it, and the promise resolves with the stored diagnostics
\* or []
waiterTimedOut(c) ==
  [waiters |-> [waiter.waiters EXCEPT ![calls[c].uri] = 0], store |-> waiter.store]

callsTimedOut(c) ==
  [calls EXCEPT ![c] = resolved(@, IF waiter.store[@.uri] = Undefined
                                    THEN NoDiagnostics
                                    ELSE waiter.store[@.uri][1])]

\* clear(uri)
waiterCleared(uri) ==
  [waiters |-> [waiter.waiters EXCEPT ![uri] = 0],
   store   |-> [waiter.store EXCEPT ![uri] = Undefined]]

\* Timers of one delay fire in the order they were set
timerDue(c) ==
  /\ calls[c] # UnusedCall
  /\ calls[c].timer
  /\ \A d \in CallIds : (d < c /\ calls[d] # UnusedCall) => ~calls[d].timer

OnDiagnosticsReceived(uri, diags) ==
  /\ waiter' = waiterReceived(uri, diags)
  /\ calls' = callsReceived(uri, diags)
  /\ UNCHANGED <<indexVars, startupVars, bridge, children, ops>>

WaitForDiagnostics(uri) ==
  /\ \E c \in CallIds : calls[c] = UnusedCall
  /\ waiter' = waiterWaiting(uri)
  /\ calls' = callsWaiting(uri)
  /\ UNCHANGED <<indexVars, startupVars, bridge, children, ops>>

Timeout(c) ==
  /\ timerDue(c)
  /\ waiter' = waiterTimedOut(c)
  /\ calls' = callsTimedOut(c)
  /\ UNCHANGED <<indexVars, startupVars, bridge, children, ops>>

Clear(uri) ==
  /\ waiter' = waiterCleared(uri)
  /\ UNCHANGED <<indexVars, startupVars, bridge, calls, children, ops>>

ClearAll ==
  /\ waiter' = NoWaiter
  /\ UNCHANGED <<indexVars, startupVars, bridge, calls, children, ops>>

(***************************************************************************)
(* Specification of the diagnostics waiter                                 *)
(***************************************************************************)
Diagnostics == {<<"unused variable">>, <<"undefined method">>}

InitWaiter ==
  /\ sourceTree = << >>
  /\ joomlaIndex = NoIndex
  /\ response = NoResponse
  /\ SchemaUnloaded(EmptySqlDir)
  /\ Serving(Undefined)
  /\ LspIdle

PublishStep == \E uri \in Uris, diags \in Diagnostics : OnDiagnosticsReceived(uri, diags)

WaitStep == \E uri \in Uris : WaitForDiagnostics(uri)

TimeoutStep == \E c \in CallIds : Timeout(c)

ClearStep == \E uri \in Uris : Clear(uri)

NextWaiter ==
  \/ PublishStep
  \/ WaitStep
  \/ TimeoutStep
  \/ ClearStep
  \/ ClearAll

SpecWaiter == InitWaiter /\ [][NextWaiter]_vars

(***************************************************************************)
(* Properties of the diagnostics waiter                                    *)
(***************************************************************************)
\* The step is a call of waitForDiagnostics(uri) that created call c
Waited(c, uri) ==
  /\ calls[c] = UnusedCall
  /\ calls'[c] # UnusedCall
  /\ calls'[c].uri = uri

\* C26: a waitForDiagnostics call made while diagnostics for its URI are
\* stored returns them at once; only a call made with none stored waits.
C26_ReturnsStored ==
  [][\A c \in CallIds, uri \in Uris :
        Waited(c, uri) =>
          IF waiter.store[uri] # Undefined
          THEN calls'[c].state = "resolved" /\ calls'[c].result = waiter.store[uri][1]
          ELSE calls'[c].state = "pending"]_vars

\* C27: resolve is invoked at most once for every call, and a publish for
\* the URI of a call that is pending resolves the call, at that step, with
\* the published diagnostics, whatever other calls, timeouts and clears came
\* before.
C27_ResolvesAtPublish ==
  /\ [](\A c \in CallIds : calls[c] # UnusedCall => calls[c].resolutions <= 1)
  /\ [][\A uri \in Uris, diags \in Diagnostics :
          OnDiagnosticsReceived(uri, diags) =>
            \A c \in CallIds :
              (calls[c] # UnusedCall /\ calls[c].state = "pending" /\ calls[c].uri = uri) =>
                (calls'[c].state = "resolved" /\ calls'[c].result = diags)]_vars

(***************************************************************************)
(* IntelephenseBridge: the child process, start, exit and restart          *)
(***************************************************************************)
MAX_RESTARTS == 3

\* The fields of a new bridge.  process is the pid of this.process or 0;
\* documentVersions holds 0 for a URI without an entry; virtualFiles are the
\* URIs whose file exists in .mcp-virtual;
\* everRestarted is lastRestartTime # 0; restartTimers counts the cooldown
\* timers of attemptRestart that have not fired; starts holds the calls of
\* start() that have not returned, each before its spawn ("mkdir") or
\* awaiting the answer to initialize from the process it spawned
NewBridge ==
  [created          |-> TRUE,
   process          |-> 0,
   initialized      |-> FALSE,
   initializing     |-> FALSE,
   restartCount     |-> 0,
   everRestarted    |-> FALSE,
   restartTimers    |-> 0,
   starts           |-> << >>,
   openDocuments    |-> {},
   documentVersions |-> [u \in Uris |-> 0],
   activeVirtuals   |-> {},
   virtualFiles     |-> {}]

StartCall(pc, pid) == [pc |-> pc, pid |-> pid]

without(seq, i) == SubSeq(seq, 1, i - 1) \o SubSeq(seq, i + 1, Len(seq))

Alive == {pid \in Pids : children[pid].alive}

Spawned == {pid \in Pids : children[pid] # Unspawned}

\* start(): returns at once when initialized or initializing, else sets
\* initializing and awaits fs.mkdir
started(b) ==
  IF b.initialized \/ b.initializing THEN b
  ELSE [b EXCEPT !.initializing = TRUE,
                 !.starts = Append(@, StartCall("mkdir", 0))]

\* startLspBridge: lspBridge = new IntelephenseBridge(...); lspBridge.start()
StartLspBridge ==
  /\ server = "running"
  /\ bridge = NoBridge
  /\ bridge' = started(NewBridge)
  /\ UNCHANGED <<indexVars, startupVars, waiter, calls, children, ops>>

\* start() after mkdir: the child is spawned, this.process is set and the
\* initialize request is written to it
StartSpawn(i) ==
  /\ server = "running"
  /\ bridge.created
  /\ i \in DOMAIN bridge.starts
  /\ bridge.starts[i].pc = "mkdir"
  /\ Cardinality(Spawned) < MaxSpawns
  /\ \E pid \in Pids :
        /\ pid = Cardinality(Spawned) + 1
        /\ children' = [children EXCEPT ![pid] =
                          [alive |-> TRUE, exit |-> "none", log |-> << >>]]
        /\ bridge' = [bridge EXCEPT !.process = pid,
                                    !.starts[i] = StartCall("initialize", pid)]
  /\ UNCHANGED <<indexVars, startupVars, waiter, calls, ops>>

\* The process answers initialize: initialized is set and start() returns
StartInitialized(i) ==
  /\ server = "running"
  /\ bridge.created
  /\ i \in DOMAIN bridge.starts
  /\ bridge.starts[i].pc = "initialize"
  /\ children[bridge.starts[i].pid].alive
  /\ bridge.process = bridge.starts[i].pid
  /\ bridge' = [bridge EXCEPT !.initialized = TRUE,
                              !.initializing = FALSE,
                              !.starts = without(@, i)]
  /\ UNCHANGED <<indexVars, startupVars, waiter, calls, children, ops>>

\* As StartFailed with the caller of start() retrying after the cooldown
StartFailedRetrying(i) ==
  /\ server = "running"
  /\ bridge.created
  /\ i \in DOMAIN bridge.starts
  /\ bridge' = [bridge EXCEPT !.initializing = FALSE,
                              !.starts = without(@, i),
                              !.restartTimers = @ + 1]
  /\ UNCHANGED <<indexVars, startupVars, waiter, calls, children, ops>>

\* mkdir fails, initialize is answered with an error or its 30 s timer
\* fires: the catch of start() clears initializing and rethrows to
\* startLspBridge or attemptRestart, which log it.  The process is left as
\* it is
StartFailed(i) ==
  /\ server = "running"
  /\ bridge.created
  /\ i \in DOMAIN bridge.starts
  /\ bridge' = [bridge EXCEPT !.initializing = FALSE,
                              !.starts = without(@, i)]
  /\ UNCHANGED <<indexVars, startupVars, waiter, calls, children, ops>>

\* attemptRestart up to its await: the counter is reset outside the window
\* (always on the first call, lastRestartTime being 0), nothing happens at
\* MAX_RESTARTS, else the counter grows and the cooldown timer is set
restartAttempted(b, windowElapsed) ==
  LET count == IF windowElapsed \/ ~b.everRestarted THEN 0 ELSE b.restartCount
  IN  IF count >= MAX_RESTARTS
      THEN [b EXCEPT !.restartCount = count]
      ELSE [b EXCEPT !.restartCount = count + 1,
                     !.everRestarted = TRUE,
                     !.restartTimers = @ + 1]

\* The exit handler: with code the exit code of the process, or null when
\* a signal ended it
exited(b, exit, windowElapsed) ==
  LET reset == [b EXCEPT !.initialized = FALSE,
                         !.initializing = FALSE,
                         !.process = 0]
  IN  IF exit = "code" THEN restartAttempted(reset, windowElapsed) ELSE reset

Exits == {"clean", "code", "signal"}

\* A child process exits: with code 0, with another code, or by a signal.
\* After process.exit of the server no handler runs
ChildExit(pid, exit, windowElapsed) ==
  /\ children[pid].alive
  /\ children' = [children EXCEPT ![pid].alive = FALSE, ![pid].exit = exit]
  /\ bridge' = IF server = "running" THEN exited(bridge, exit, windowElapsed)
               ELSE bridge
  /\ UNCHANGED <<indexVars, startupVars, waiter, calls, ops>>

\* The cooldown timer of attemptRestart fires: await this.start()
RestartCooldownElapsed ==
  /\ server = "running"
  /\ bridge.created
  /\ bridge.restartTimers > 0
  /\ bridge' = started([bridge EXCEPT !.restartTimers = @ - 1])
  /\ UNCHANGED <<indexVars, startupVars, waiter, calls, children, ops>>

\* A notification written to the stdin of this.process
sent(method, uri, version) ==
  [children EXCEPT ![bridge.process].log =
     Append(@, [method |-> method, uri |-> uri, version |-> version])]

RECURSIVE sentAll(_, _, _)
sentAll(kids, pid, uris) ==
  IF uris = {} THEN kids
  ELSE LET u == CHOOSE x \in uris : TRUE
       IN  sentAll([kids EXCEPT ![pid].log =
                      Append(@, [method |-> "textDocument/didClose", uri |-> u,
                                 version |-> 0])],
                   pid, uris \ {u})

\* shutdown: lspBridge.stop() and process.exit(0).  stop() with a process
\* closes every open document, removes the virtual files, clears the
\* waiter and asks the process to shut down
Shutdown ==
  /\ server = "running"
  /\ server' = "stopped"
  /\ IF bridge.created /\ bridge.process # 0
     THEN /\ children' = IF children[bridge.process].alive
                         THEN sentAll(children, bridge.process, bridge.openDocuments)
                         ELSE children
          /\ bridge' = [bridge EXCEPT !.openDocuments = {},
                                      !.activeVirtuals = {},
                                      !.virtualFiles = @ \ bridge.activeVirtuals]
          /\ waiter' = NoWaiter
     ELSE UNCHANGED <<bridge, children, waiter>>
  /\ UNCHANGED <<indexVars, checkout, indexFile, syncTask, calls, ops>>

(***************************************************************************)
(* Specification of the process lifecycle                                  *)
(***************************************************************************)
InitRestart ==
  /\ sourceTree = << >>
  /\ joomlaIndex = NoIndex
  /\ response = NoResponse
  /\ SchemaUnloaded(EmptySqlDir)
  /\ Serving(Undefined)
  /\ LspIdle

StartSpawnStep == \E i \in 1..2 : StartSpawn(i)

StartInitializedStep == \E i \in 1..2 : StartInitialized(i)

StartFailedStep == \E i \in 1..2 : StartFailed(i)

ChildExitStep ==
  \E pid \in Pids, exit \in Exits, windowElapsed \in BOOLEAN :
      ChildExit(pid, exit, windowElapsed)

NextRestart ==
  \/ StartLspBridge
  \/ StartSpawnStep
  \/ StartInitializedStep
  \/ StartFailedStep
  \/ ChildExitStep
  \/ RestartCooldownElapsed
  \/ Shutdown

SpecRestart == InitRestart /\ [][NextRestart]_vars

(***************************************************************************)
(* Properties of the process lifecycle                                     *)
(***************************************************************************)
\* The step is the exit of pid by an error code or by a signal while the
\* server runs
Crashed(pid) ==
  /\ server = "running"
  /\ children[pid].alive
  /\ ~children'[pid].alive
  /\ children'[pid].exit \in {"code", "signal"}

\* C24: the restart counter never exceeds 3, and every crash of the child,
\* by error code or by signal, schedules a restart after the cooldown
\* unless 3 attempts were already made.
C24_AutoRestart ==
  /\ [](bridge.created => bridge.restartCount <= MAX_RESTARTS)
  /\ [][\A pid \in Pids :
          Crashed(pid) =>
            \/ /\ bridge'.restartTimers = bridge.restartTimers + 1
               /\ bridge'.restartCount >= 1
            \/ /\ bridge'.restartCount = MAX_RESTARTS
               /\ bridge'.restartTimers = bridge.restartTimers]_vars

\* C28: at most one child process of the bridge is alive at any time; a
\* step that spawns a process starts from no process alive, and the exit of
\* a process leaves the process and initialized fields alone when they
\* belong to another process.
C28_OneChild ==
  /\ [](Cardinality(Alive) <= 1)
  /\ [][\A pid \in Pids :
          (children[pid] = Unspawned /\ children'[pid] # Unspawned) => Alive = {}]_vars
  /\ [][\A pid \in Pids :
          (children[pid].alive /\ ~children'[pid].alive /\ bridge.created
             /\ bridge.process # pid /\ bridge.process # 0) =>
            (bridge'.process = bridge.process
               /\ bridge'.initialized = bridge.initialized)]_vars

\* The second process runs initialised, spawned by the restart that
\* followed the crash of the first
C28_Witness ==
  /\ bridge.created
  /\ children[1].exit = "code"
  /\ children[2].alive
  /\ bridge.process = 2
  /\ bridge.initialized
  /\ bridge.restartCount = 1
  /\ bridge.starts = << >>

(***************************************************************************)
(* IntelephenseBridge: getDiagnostics and the documents                    *)
(***************************************************************************)
\* The input of an operation: a file of the workspace or an inline code,
\* with the URI InputResolver.resolve gives it (the virtual file is named
\* after the hash of the code)
Input(kind, uri) == [kind |-> kind, uri |-> uri]

FileInput == Input("filePath", FileUri)

CodeInput == Input("code", VirtualUri)

Op(pc, input, call, result) ==
  [pc |-> pc, input |-> input, call |-> call, result |-> result]

nextOp == CHOOSE o \in OpIds :
            ops[o] = UnusedOp /\ \A p \in OpIds : p < o => ops[p] # UnusedOp

\* this.process?.stdin?.writable
writable == bridge.process # 0 /\ children[bridge.process].alive

\* The log of a server shows uri open: the last of its didOpen and didClose
\* is a didOpen
RECURSIVE openIn(_, _)
openIn(log, uri) ==
  IF log = << >> THEN FALSE
  ELSE LET last == log[Len(log)]
       IN  IF last.uri = uri /\ last.method = "textDocument/didOpen" THEN TRUE
           ELSE IF last.uri = uri /\ last.method = "textDocument/didClose" THEN FALSE
           ELSE openIn(SubSeq(log, 1, Len(log) - 1), uri)

\* getDiagnostics up to its first await: requireBridge and ensureReady
\* throw unless the bridge is ready, then InputResolver.resolve starts
GetDiagnostics(input) ==
  /\ server = "running"
  /\ bridge.created
  /\ \E o \in OpIds : ops[o] = UnusedOp
  /\ ops' = [ops EXCEPT ![nextOp] =
               IF bridge.initialized /\ bridge.process # 0
               THEN Op("resolve", input, 0, NoDiagnostics)
               ELSE Op("failed", input, 0, NoDiagnostics)]
  /\ UNCHANGED <<indexVars, startupVars, bridge, waiter, calls, children>>

\* openDocument: didChange with the next version for a URI in
\* openDocuments, else didOpen with version 1 and the URI is added
documentOpened(b, uri) ==
  IF uri \in b.openDocuments
  THEN [b EXCEPT !.documentVersions[uri] = @ + 1]
  ELSE [b EXCEPT !.documentVersions[uri] = 1, !.openDocuments = @ \cup {uri}]

openedNotice(uri) ==
  IF uri \in bridge.openDocuments
  THEN sent("textDocument/didChange", uri, bridge.documentVersions[uri] + 1)
  ELSE sent("textDocument/didOpen", uri, 1)

\* resolve() returns: the virtual file of an inline code has been written.
\* openDocument and waitForDiagnostics follow with no event in between;
\* writeMessage throws when the process is gone, after documentVersions
\* was set
OpResolved(o) ==
  /\ server = "running"
  /\ ops[o] # UnusedOp
  /\ ops[o].pc = "resolve"
  /\ \E c \in CallIds : calls[c] = UnusedCall
  /\ LET uri  == ops[o].input.uri
         held == IF ops[o].input.kind = "code"
                 THEN [bridge EXCEPT !.activeVirtuals = @ \cup {uri},
                                     !.virtualFiles = @ \cup {uri}]
                 ELSE bridge
     IN  IF writable
         THEN /\ bridge' = documentOpened(held, uri)
              /\ children' = openedNotice(uri)
              /\ waiter' = waiterWaiting(uri)
              /\ calls' = callsWaiting(uri)
              /\ ops' = [ops EXCEPT ![o].pc = "waiting", ![o].call = nextCall]
         ELSE /\ bridge' = [held EXCEPT !.documentVersions[uri] =
                              IF uri \in bridge.openDocuments THEN @ + 1 ELSE 1]
              /\ ops' = [ops EXCEPT ![o].pc = "failed"]
              /\ UNCHANGED <<waiter, calls, children>>
  /\ UNCHANGED <<indexVars, startupVars>>

\* The promise of waitForDiagnostics has resolved.  For a virtual file
\* closeDocument sends didClose, forgets the document and clears the waiter
\* of the URI, and cleanup starts to unlink the file
OpResumed(o) ==
  /\ server = "running"
  /\ ops[o] # UnusedOp
  /\ ops[o].pc = "waiting"
  /\ calls[ops[o].call].state = "resolved"
  /\ LET uri == ops[o].input.uri
         got == [ops EXCEPT ![o].result = calls[ops[o].call].result]
     IN  IF ops[o].input.kind # "code"
         THEN /\ ops' = [got EXCEPT ![o].pc = "done"]
              /\ UNCHANGED <<bridge, waiter, children>>
         ELSE IF uri \in bridge.openDocuments /\ ~writable
         THEN /\ ops' = [got EXCEPT ![o].pc = "failed"]
              /\ UNCHANGED <<bridge, waiter, children>>
         ELSE /\ IF uri \in bridge.openDocuments
                 THEN /\ children' = sent("textDocument/didClose", uri, 0)
                      /\ bridge' = [bridge EXCEPT !.openDocuments = @ \ {uri},
                                                  !.documentVersions[uri] = 0]
                      /\ waiter' = waiterCleared(uri)
                 ELSE UNCHANGED <<bridge, waiter, children>>
              /\ ops' = [got EXCEPT ![o].pc =
                           IF uri \in bridge.activeVirtuals THEN "unlink" ELSE "done"]
  /\ UNCHANGED <<indexVars, startupVars, calls>>

\* cleanup after fs.unlink: the file is gone and forgotten
OpUnlinked(o) ==
  /\ server = "running"
  /\ ops[o] # UnusedOp
  /\ ops[o].pc = "unlink"
  /\ bridge' = [bridge EXCEPT !.virtualFiles = @ \ {ops[o].input.uri},
                              !.activeVirtuals = @ \ {ops[o].input.uri}]
  /\ ops' = [ops EXCEPT ![o].pc = "done"]
  /\ UNCHANGED <<indexVars, startupVars, waiter, calls, children>>

\* The running server publishes diagnostics for a document it has open:
\* handleMessage hands them to onDiagnosticsReceived
ServerPublish(uri, diags) ==
  /\ server = "running"
  /\ bridge.created
  /\ writable
  /\ openIn(children[bridge.process].log, uri)
  /\ waiter' = waiterReceived(uri, diags)
  /\ calls' = callsReceived(uri, diags)
  /\ UNCHANGED <<indexVars, startupVars, bridge, children, ops>>

(***************************************************************************)
(* Specification of the LSP operations                                     *)
(***************************************************************************)
InitBridge ==
  /\ sourceTree = << >>
  /\ joomlaIndex = NoIndex
  /\ response = NoResponse
  /\ SchemaUnloaded(EmptySqlDir)
  /\ Serving(Undefined)
  /\ LspIdle

\* Exits of the child by an error code, which the bridge restarts from
CrashStep == \E pid \in Pids : ChildExit(pid, "code", TRUE)

GetDiagnosticsStep == \E input \in {FileInput, CodeInput} : GetDiagnostics(input)

OpResolvedStep == \E o \in OpIds : OpResolved(o)

OpResumedStep == \E o \in OpIds : OpResumed(o)

OpUnlinkedStep == \E o \in OpIds : OpUnlinked(o)

ServerPublishStep ==
  \E uri \in Uris, diags \in {<<"unused variable">>} : ServerPublish(uri, diags)

NextBridge ==
  \/ StartLspBridge
  \/ StartSpawnStep
  \/ StartInitializedStep
  \/ CrashStep
  \/ RestartCooldownElapsed
  \/ GetDiagnosticsStep
  \/ OpResolvedStep
  \/ OpResumedStep
  \/ OpUnlinkedStep
  \/ ServerPublishStep
  \/ TimeoutStep

SpecBridge == InitBridge /\ [][NextBridge]_vars

(***************************************************************************)
(* Properties of the LSP operations                                        *)
(***************************************************************************)
DidOpen == "textDocument/didOpen"

DidChange == "textDocument/didChange"

\* C29: every didChange in the log of a server process follows a didOpen of
\* the same document in the same log with no didClose in between; so the
\* first notification a restarted process receives for a document is a
\* didOpen.
C29_OpenBeforeChange ==
  \A pid \in Pids :
    \A i \in DOMAIN children[pid].log :
      children[pid].log[i].method = DidChange =>
        openIn(SubSeq(children[pid].log, 1, i - 1), children[pid].log[i].uri)

\* An operation on an inline code awaits its diagnostics
InFlight(o) ==
  /\ ops[o] # UnusedOp
  /\ ops[o].pc = "waiting"
  /\ ops[o].input.kind = "code"
  /\ calls[ops[o].call].state = "pending"

\* C30: while an operation on an inline code awaits its diagnostics with
\* the server running, its virtual file exists, its document is open and
\* its resolver is the one registered for the URI; and diagnostics
\* published for the URI resolve every such operation with them.
C30_Isolation ==
  /\ [](\A o \in OpIds :
          (InFlight(o) /\ writable) =>
            /\ ops[o].input.uri \in bridge.virtualFiles
            /\ ops[o].input.uri \in bridge.openDocuments
            /\ waiter.waiters[ops[o].input.uri] = ops[o].call)
  /\ [][\A uri \in Uris, diags \in Diagnostics :
          ServerPublish(uri, diags) =>
            \A o \in OpIds :
              (InFlight(o) /\ ops[o].input.uri = uri) =>
                (calls'[ops[o].call].state = "resolved"
                   /\ calls'[ops[o].call].result = diags)]_vars

====
